---- MODULE Spec2Model ----
(***************************************************************************)
(* Model of the VirtualMachine allocation / mapping tracker of ahvf        *)
(* (src/src/virtual_machine.rs), of the status conversion it uses          *)
(* (src/src/err.rs), of the creation and the drop of a VirtualMachine, and *)
(* of the run, exit and drop of a VirtualCpu (src/src/vcpu.rs).            *)
(*                                                                         *)
(* Every method of VirtualMachine is an operator with the method's name.   *)
(* It takes the struct (`self`), the call's arguments and, where the       *)
(* method issues a native call, the status `ret` that call returns, and    *)
(* gives the outcome of the whole call:                                    *)
(*     [self   |-> the struct after the call,                              *)
(*      result |-> the Result the caller gets,                             *)
(*      native |-> the native calls issued, in order].                     *)
(* The actions apply these operators to the state variables; a call that   *)
(* fails leaves the struct as it was, so it is a step that changes         *)
(* nothing.  The properties evaluate the operators in the reachable        *)
(* states.                                                                 *)
(***************************************************************************)
EXTENDS Integers, Sequences, FiniteSets, TLC

VARIABLES allocation_counter, mapping_counter, allocation_list, mapping_list

\* The life of the VirtualMachine instances of one process:
\*   vm_state         whether an instance exists: "Uninitialized" before the
\*                    first VirtualMachine::new, "Created", "Destroyed" after
\*                    a drop that returned, "Panicked" after a drop whose
\*                    panic unwound, so that the process goes on, "Aborted"
\*                    when a panic or a failed precondition check has ended
\*                    the process, which then takes no step;
\*   native_log       the native calls issued by the last new or drop;
\*   returned_here    the allocation handle values the living instance has
\*                    returned from allocate / allocate_from;
\*   returned_before  those returned by the instances dropped since.
VARIABLES vm_state, native_log, returned_here, returned_before

\* A VirtualMachine the process constructs while the one above lives:
\*   second_vm   "None", "Created" after a VirtualMachine::new that returned
\*               Ok, "Panicked" after a drop of it that panicked (a process
\*               the panic ended takes no further step).
VARIABLES second_vm

\* The guest mappings the native layer holds for the process, as the
\* calls that returned HV_SUCCESS have left them: records of ipa, size and
\* flags.  The state machine of the native mappings maintains it.
VARIABLES native_mappings

\* The buffers the process has released (alloc::dealloc in Drop for
\* VirtualMachineAllocation): the handle of the allocation, and whether the
\* native layer held a mapping of the buffer when it was released.
VARIABLES released

\* One vCPU of the VirtualMachine:
\*   vcpu_state   "None" before create_vcpu, "Created", "Destroyed" after a
\*                drop that returned, "Panicked" after a drop that panicked
\*                (a process the panic ended takes no further step);
\*   vcpu         the struct VirtualCpu;
\*   vcpu_exit    the exit record vcpu.vcpu_exit points to, which the native
\*                layer writes;
\*   vcpu_result  what the last run() returned;
\*   vcpu_log     the native calls issued by the last vCPU operation.
VARIABLES vcpu_state, vcpu, vcpu_exit, vcpu_result, vcpu_log

vm_vars == <<allocation_counter, mapping_counter, allocation_list, mapping_list,
             vm_state, native_log, returned_here, returned_before, second_vm,
             native_mappings, released>>

\* The threads of the process around a run() in flight:
\*   exit_pending  the native layer holds an exit request for the vCPU that
\*                 no return of hv_vcpu_run has delivered yet;
\*   exit_result   what the last exit() / exit_vcpus() returned, the
\*                 handles it was called for and the count it passed;
\*   view          the mutable slice get_allocation_slice_mut returned and
\*                 the caller still holds, with the handle it was asked for.
\* vcpu_state is "Running" while hv_vcpu_run is in flight.
VARIABLES exit_pending, exit_result, view

vcpu_vars == <<vcpu_state, vcpu, vcpu_exit, vcpu_result, vcpu_log>>

run_vars == <<exit_pending, exit_result, view>>

vars == <<vm_vars, vcpu_vars, run_vars>>

(***************************************************************************)
(* Bounds of the model: the number of handles each counter may issue.      *)
(***************************************************************************)
MaxAllocations == 2

MaxMappings == 2

(***************************************************************************)
(* Program constants.                                                      *)
(***************************************************************************)
PAGE_SIZE == 65536

\* Hypervisor.framework values of the names the generated bindings export.
HV_MEMORY_READ == 1

HV_MEMORY_WRITE == 2

HV_MEMORY_EXEC == 4

\* hv_return_t is an i32: the framework's 0xfae940xx codes as signed values.
HV_SUCCESS == 0

HV_ERROR == -85377023

HV_BUSY == -85377022

HV_BAD_ARGUMENT == -85377021

HV_ILLEGAL_GUEST_STATE == -85377020

HV_NO_RESOURCES == -85377019

HV_NO_DEVICE == -85377018

HV_DENIED == -85377017

HV_UNSUPPORTED == -85377009

\* A status value that is none of the named codes.
UnlistedStatus == HV_SUCCESS + 1

(***************************************************************************)
(* Result<T, HypervisorError>.                                             *)
(***************************************************************************)
Ok(v) == [ok |-> TRUE, value |-> v]

Err(e) == [ok |-> FALSE, err |-> e]

Unit == <<>>

HypervisorError(kind) == [kind |-> kind, code |-> 0]

HypervisorErrorUnknown(code) == [kind |-> "Unknown", code |-> code]

IsOk(r) == r.ok

IsErr(r, kind) == (~r.ok) /\ r.err.kind = kind

\* Faulty variant: HV_BUSY is taken for HV_ERROR, and a code that is not
\* listed for InvalidHandle.
HypervisorError_from_confuses(value) ==
    CASE value = HV_SUCCESS -> [kind |-> "panic", code |-> 0]
      [] value = HV_ERROR -> HypervisorError("Error")
      [] value = HV_BUSY -> HypervisorError("Error")
      [] value = HV_BAD_ARGUMENT -> HypervisorError("BadArgument")
      [] value = HV_ILLEGAL_GUEST_STATE -> HypervisorError("IllegalGuestState")
      [] value = HV_NO_RESOURCES -> HypervisorError("NoResources")
      [] value = HV_NO_DEVICE -> HypervisorError("NoDevice")
      [] value = HV_DENIED -> HypervisorError("Denied")
      [] value = HV_UNSUPPORTED -> HypervisorError("Unsupported")
      [] OTHER -> HypervisorError("InvalidHandle")

\* impl From<hv_return_t> for HypervisorError
HypervisorError_from(value) ==
    CASE value = HV_SUCCESS -> [kind |-> "panic", code |-> 0]
      [] value = HV_ERROR -> HypervisorError("Error")
      [] value = HV_BUSY -> HypervisorError("Busy")
      [] value = HV_BAD_ARGUMENT -> HypervisorError("BadArgument")
      [] value = HV_ILLEGAL_GUEST_STATE -> HypervisorError("IllegalGuestState")
      [] value = HV_NO_RESOURCES -> HypervisorError("NoResources")
      [] value = HV_NO_DEVICE -> HypervisorError("NoDevice")
      [] value = HV_DENIED -> HypervisorError("Denied")
      [] value = HV_UNSUPPORTED -> HypervisorError("Unsupported")
      [] OTHER -> HypervisorErrorUnknown(value)

\* Faulty variant: every status goes through the conversion, HV_SUCCESS too.
convert_hv_return_always_converts(value) == Err(HypervisorError_from(value))

convert_hv_return(value) ==
    IF value = HV_SUCCESS THEN Ok(Unit) ELSE Err(HypervisorError_from(value))

(***************************************************************************)
(* MemoryPermission and its native flag bitmask.                           *)
(***************************************************************************)
MemoryPermission(read, write, execute) ==
    [read |-> read, write |-> write, execute |-> execute]

READ == MemoryPermission(TRUE, FALSE, FALSE)

WRITE == MemoryPermission(FALSE, TRUE, FALSE)

EXECUTE == MemoryPermission(FALSE, FALSE, TRUE)

READ_WRITE == MemoryPermission(TRUE, TRUE, FALSE)

READ_EXECUTE == MemoryPermission(TRUE, FALSE, TRUE)

WRITE_EXECUTE == MemoryPermission(FALSE, TRUE, TRUE)

READ_WRITE_EXECUTE == MemoryPermission(TRUE, TRUE, TRUE)

\* The 8 combinations of the three capabilities.
AllPermissions == [read : BOOLEAN, write : BOOLEAN, execute : BOOLEAN]

\* impl From<MemoryPermission> for hv_memory_flags_t: the three bits are
\* distinct, so the bitwise or is a sum.
hv_memory_flags_from(value) ==
    (IF value.read THEN HV_MEMORY_READ ELSE 0)
    + (IF value.write THEN HV_MEMORY_WRITE ELSE 0)
    + (IF value.execute THEN HV_MEMORY_EXEC ELSE 0)

(***************************************************************************)
(* Counter and VirtualMachineAllocation.                                   *)
(***************************************************************************)
\* Counter::get_next_value: the incremented value, which is also returned.
\* The model's guards keep the counters far below the u64 range.
get_next_value(counter) == counter + 1

\* n > isize::MAX, that is n >= 2^63.  The test is written on the digits of
\* n in base 2^16, 2^63 being beyond the integers of the model checker:
\* n \div 2^48 >= 2^15.
exceeds_isize_MAX(n) == ((n \div 65536) \div 65536) \div 65536 >= 32768

\* Layout::from_size_align(size, align) for an align that is a power of
\* two, which PAGE_SIZE is: LayoutError if size > isize::MAX - (align - 1),
\* the layout otherwise.
Layout_from_size_align(size, align) ==
    IF exceeds_isize_MAX(size + (align - 1))
    THEN Err([kind |-> "LayoutError", code |-> 0])
    ELSE Ok([size |-> size, align |-> align])

Panic(message) == Err([kind |-> "panic", code |-> 0, message |-> message])

\* Result::unwrap of the layout: the panic on LayoutError.
Layout_unwrap(layout) ==
    IF layout.ok THEN layout
    ELSE Panic("called Result::unwrap() on an Err value: LayoutError")

\* Layout::pad_to_align().size() of a layout of align PAGE_SIZE, which
\* from_size_align accepted: the size rounded up to the page.
\* Faulty variant: the size is not rounded up to the page.
pad_to_align_none(size) == size

pad_to_align(size) == ((size + PAGE_SIZE - 1) \div PAGE_SIZE) * PAGE_SIZE

\* What alloc_zeroed returns: the address of a zeroed buffer, or the null
\* pointer when the allocator cannot serve the layout.
BufferPointer == "buffer"

NullPointer == "null"

\* VirtualMachineAllocation::new: the panic of the unwrap for a size no
\* layout can have; otherwise the layout of the padded size, the pointer
\* alloc_zeroed returned for it (ptr), handle 0.  The buffer holds `data`
\* followed by zero bytes up to `size`.
VirtualMachineAllocation_new(size, ptr) ==
    LET layout == Layout_unwrap(Layout_from_size_align(size, PAGE_SIZE))
    IN  IF ~layout.ok THEN layout
        ELSE Ok([handle |-> 0, size |-> pad_to_align(layout.value.size),
                 data |-> <<>>, base_address |-> ptr])

\* The process is ended without unwinding.
Abort(message) == Err([kind |-> "abort", code |-> 0, message |-> message])

\* The variants of HypervisorError without a payload, in the order of the
\* enum, which is the order of their tags from 0; the tag after them is
\* that of Unknown(i32).
HypervisorErrorVariants ==
    <<"Error", "Busy", "BadArgument", "IllegalGuestState", "NoResources",
      "NoDevice", "Denied", "Unsupported", "InvalidHandle",
      "AllocationStillMapped", "MisalignedAddress">>

\* The HypervisorError read from a 64-bit word: the low 32 bits are the
\* tag, the high 32 bits the payload of Unknown.  The word is taken by its
\* digits in base 2^16: the tag is tag_high * 2^16 + tag_low.
HypervisorError_from_word(word) ==
    LET tag_low == word % 65536
        tag_high == (word \div 65536) % 65536
        payload == (word \div 65536) \div 65536
    IN  IF tag_high = 0 /\ tag_low < Len(HypervisorErrorVariants)
        THEN HypervisorError(HypervisorErrorVariants[tag_low + 1])
        ELSE IF tag_high = 0 /\ tag_low = Len(HypervisorErrorVariants)
        THEN HypervisorErrorUnknown(payload)
        ELSE [kind |-> "no variant", code |-> word]

\* slice::from_raw_parts and from_raw_parts_mut of the null pointer are
\* undefined behaviour.  What a build makes of it: with the checks of the
\* unsafe preconditions (debug) the process is aborted; without them the
\* slice of the null pointer is returned in the Ok of a Result whose Err is
\* told by the null pointer, so the caller reads an Err, its payload the
\* word after the pointer, which holds the length of the slice.
UndefinedBehaviourInputs == {"abort", "niche"}

UndefinedBehaviour(len, ub) ==
    IF ub = "abort"
    THEN Abort("unsafe precondition(s) violated: slice::from_raw_parts")
    ELSE Err(HypervisorError_from_word(len))

\* slice::from_raw_parts(base_address, layout.size()): a view over the whole
\* buffer, given by its pointer, its length and its bytes (data, then zeros).
from_raw_parts(allocation, ub) ==
    IF allocation.base_address = NullPointer
    THEN UndefinedBehaviour(allocation.size, ub)
    ELSE Ok([ptr |-> allocation.base_address,
             len |-> allocation.size,
             data |-> allocation.data])

\* Vec::remove(index) with a 0-based index.
VecRemove(list, index) ==
    SubSeq(list, 1, index) \o SubSeq(list, index + 2, Len(list))

\* The VirtualMachine struct of the current state.
VirtualMachine ==
    [allocation_counter |-> allocation_counter,
     mapping_counter |-> mapping_counter,
     allocation_list |-> allocation_list,
     mapping_list |-> mapping_list]

Outcome(self, result, native) ==
    [self |-> self, result |-> result, native |-> native]

(***************************************************************************)
(* Lookups.                                                                *)
(***************************************************************************)
\* Faulty variant: the position counted from 1 is returned as the index.
find_allocation_by_handle_index_from_one(self, handle) ==
    LET hits == {i \in 1..Len(self.allocation_list) :
                    self.allocation_list[i].handle = handle}
    IN  IF hits = {}
        THEN Err(HypervisorError("InvalidHandle"))
        ELSE LET i == CHOOSE i \in hits : \A j \in hits : i <= j
             IN  Ok([index |-> i, entry |-> self.allocation_list[i]])

\* First entry with the handle, with its 0-based index.
find_allocation_by_handle(self, handle) ==
    LET hits == {i \in 1..Len(self.allocation_list) :
                    self.allocation_list[i].handle = handle}
    IN  IF hits = {}
        THEN Err(HypervisorError("InvalidHandle"))
        ELSE LET i == CHOOSE i \in hits : \A j \in hits : i <= j
             IN  Ok([index |-> i - 1, entry |-> self.allocation_list[i]])

\* Faulty variant: the entries are compared on their allocation handle.
find_mapping_by_handle_on_allocation(self, handle) ==
    LET hits == {i \in 1..Len(self.mapping_list) :
                    self.mapping_list[i].allocation_handle = handle}
    IN  IF hits = {}
        THEN Err(HypervisorError("InvalidHandle"))
        ELSE LET i == CHOOSE i \in hits : \A j \in hits : i <= j
             IN  Ok([index |-> i - 1, entry |-> self.mapping_list[i]])

\* Faulty variant: the position counted from 1 is returned as the index.
find_mapping_by_handle_index_from_one(self, handle) ==
    LET hits == {i \in 1..Len(self.mapping_list) :
                    self.mapping_list[i].mapping_handle = handle}
    IN  IF hits = {}
        THEN Err(HypervisorError("InvalidHandle"))
        ELSE LET i == CHOOSE i \in hits : \A j \in hits : i <= j
             IN  Ok([index |-> i, entry |-> self.mapping_list[i]])

find_mapping_by_handle(self, handle) ==
    LET hits == {i \in 1..Len(self.mapping_list) :
                    self.mapping_list[i].mapping_handle = handle}
    IN  IF hits = {}
        THEN Err(HypervisorError("InvalidHandle"))
        ELSE LET i == CHOOSE i \in hits : \A j \in hits : i <= j
             IN  Ok([index |-> i - 1, entry |-> self.mapping_list[i]])

\* Faulty variant: no mapping is ever found.
is_allocation_mapped_never(self, handle) == FALSE

\* Faulty variant: only the first mapping of the list is looked at.
is_allocation_mapped_first_only(self, handle) ==
    /\ Len(self.mapping_list) > 0
    /\ self.mapping_list[1].allocation_handle = handle

\* Faulty variant: only the last mapping of the list is looked at.
is_allocation_mapped_last_only(self, handle) ==
    /\ Len(self.mapping_list) > 0
    /\ self.mapping_list[Len(self.mapping_list)].allocation_handle = handle

is_allocation_mapped(self, handle) ==
    \E i \in 1..Len(self.mapping_list) :
        self.mapping_list[i].allocation_handle = handle

(***************************************************************************)
(* Allocation tracker.                                                     *)
(***************************************************************************)
\* Faulty variant: the handle is the length of the list after the push.
allocate_handle_from_len(self, size, ptr) ==
    LET new == VirtualMachineAllocation_new(size, ptr)
        handle == Len(self.allocation_list) + 1
        allocation == [new.value EXCEPT !.handle = handle]
    IN  IF ~new.ok THEN Outcome(self, new, <<>>)
        ELSE Outcome([self EXCEPT !.allocation_counter = handle,
                                  !.allocation_list = Append(@, allocation)],
                     Ok(handle), <<>>)

\* ptr: what alloc_zeroed returns for the allocation's layout.  The pointer
\* is stored as it is.  No path of allocate returns an error; the panic of
\* VirtualMachineAllocation::new leaves the struct as it was.
allocate(self, size, ptr) ==
    LET new == VirtualMachineAllocation_new(size, ptr)
        handle == get_next_value(self.allocation_counter)
        allocation == [new.value EXCEPT !.handle = handle]
    IN  IF ~new.ok THEN Outcome(self, new, <<>>)
        ELSE Outcome([self EXCEPT !.allocation_counter = handle,
                                  !.allocation_list = Append(@, allocation)],
                     Ok(handle), <<>>)

\* ub: what the build makes of the slice of a null pointer.
get_allocation_slice(self, allocation_handle, ub) ==
    LET found == find_allocation_by_handle(self, allocation_handle)
    IN  IF ~found.ok THEN found
        ELSE from_raw_parts(found.value.entry, ub)

\* Faulty variant: the mutable slice of a mapped allocation is refused.
get_allocation_slice_mut_unmapped_only(self, allocation_handle, ub) ==
    LET found == find_allocation_by_handle(self, allocation_handle)
    IN  IF ~found.ok THEN found
        ELSE IF is_allocation_mapped(self, allocation_handle)
        THEN Err(HypervisorError("AllocationStillMapped"))
        ELSE from_raw_parts(found.value.entry, ub)

get_allocation_slice_mut(self, allocation_handle, ub) ==
    LET found == find_allocation_by_handle(self, allocation_handle)
    IN  IF ~found.ok THEN found
        ELSE from_raw_parts(found.value.entry, ub)

\* allocate(source.len()), then the copy of source into the head of the
\* mutable slice.  `if let Ok(destination)` takes every Result that is not
\* Ok to the else branch; a process that was aborted returns nothing.
allocate_from(self, source, ptr, ub) ==
    LET allocated == allocate(self, Len(source), ptr)
        allocation_handle == allocated.result.value
        destination == get_allocation_slice_mut(allocated.self, allocation_handle, ub)
    IN  IF ~allocated.result.ok THEN allocated
        ELSE IF destination.ok
        THEN LET found == find_allocation_by_handle(allocated.self, allocation_handle)
                 i == found.value.index + 1
             IN  Outcome([allocated.self EXCEPT !.allocation_list[i].data = source],
                         Ok(allocation_handle), <<>>)
        ELSE IF destination.err.kind = "abort"
        THEN Outcome(allocated.self, destination, <<>>)
        ELSE Outcome(allocated.self, Err(HypervisorError("NoResources")), <<>>)

deallocate(self, allocation_handle) ==
    LET found == find_allocation_by_handle(self, allocation_handle)
    IN  IF ~found.ok THEN Outcome(self, found, <<>>)
        ELSE IF is_allocation_mapped(self, allocation_handle)
        THEN Outcome(self, Err(HypervisorError("AllocationStillMapped")), <<>>)
        ELSE Outcome([self EXCEPT !.allocation_list = VecRemove(@, found.value.index)],
                     Ok(Unit), <<>>)

(***************************************************************************)
(* Mapping tracker.                                                        *)
(***************************************************************************)
\* Faulty variant: alignment to the 4 KiB hardware page.
is_misaligned_4k(guest_address) == guest_address % 4096 # 0

\* guest_address % PAGE_SIZE as u64 != 0
is_misaligned(guest_address) == guest_address % PAGE_SIZE # 0

\* Faulty variant: one page, whatever the allocation's size.
layout_size_one_page(allocation) == PAGE_SIZE

\* allocation.layout.size(): the padded size of the buffer.
layout_size(allocation) == allocation.size

hv_vm_map(uaddr, ipa, size, flags) ==
    [fn |-> "hv_vm_map", uaddr |-> uaddr, ipa |-> ipa, size |-> size, flags |-> flags]

hv_vm_unmap(ipa, size) ==
    [fn |-> "hv_vm_unmap", ipa |-> ipa, size |-> size, flags |-> 0]

hv_vm_protect(ipa, size, flags) ==
    [fn |-> "hv_vm_protect", ipa |-> ipa, size |-> size, flags |-> flags]

\* The guest addresses of a native call or mapping: [ipa, ipa + size).
Overlap(a, b) == a.ipa < b.ipa + b.size /\ b.ipa < a.ipa + a.size

\* The statuses the native layer can return for call with the mappings
\* native established: every call can succeed and every call can fail,
\* a hv_vm_map over addresses that are mapped too.
hv_statuses(native, call) == {HV_SUCCESS, HV_BAD_ARGUMENT}

\* The mappings the native layer holds after call returned ret: a call
\* that fails changes nothing; hv_vm_map establishes a mapping, hv_vm_unmap
\* ends those of its range, hv_vm_protect sets their flags.
hv_effect(native, call, ret) ==
    IF ret # HV_SUCCESS THEN native
    ELSE IF call.fn = "hv_vm_map"
    THEN native \cup {[ipa |-> call.ipa, size |-> call.size, flags |-> call.flags]}
    ELSE IF call.fn = "hv_vm_unmap"
    THEN {n \in native : ~Overlap(n, call)}
    ELSE IF call.fn = "hv_vm_protect"
    THEN {IF Overlap(n, call) THEN [n EXCEPT !.flags = call.flags] ELSE n : n \in native}
    ELSE native

\* The mappings the native layer holds after the calls, the i-th of which
\* returned rets[i].
RECURSIVE hv_effects(_, _, _)
hv_effects(native, calls, rets) ==
    IF calls = <<>> THEN native
    ELSE hv_effects(hv_effect(native, Head(calls), Head(rets)), Tail(calls), Tail(rets))

\* The native layer holds a mapping of the buffer of allocation handle:
\* one of the records that reference it is natively mapped.
natively_mapped(self, native, handle) ==
    \E i \in 1..Len(self.mapping_list) :
        /\ self.mapping_list[i].allocation_handle = handle
        /\ \E n \in native : /\ n.ipa = self.mapping_list[i].address
                              /\ n.size = self.mapping_list[i].size

\* Drop for VirtualMachineAllocation, for each allocation of the list of
\* self: alloc::dealloc(base_address, layout).
VirtualMachineAllocation_drop_all(self, native) ==
    {[handle |-> self.allocation_list[i].handle,
      mapped |-> natively_mapped(self, native, self.allocation_list[i].handle)] :
        i \in 1..Len(self.allocation_list)}

\* Faulty variant: the alignment of the address is tested before the
\* allocation handle is looked up.
map_alignment_first(self, allocation_handle, guest_address, permission, ret) ==
    LET found == find_allocation_by_handle(self, allocation_handle)
    IN  IF is_misaligned(guest_address)
        THEN Outcome(self, Err(HypervisorError("MisalignedAddress")), <<>>)
        ELSE IF ~found.ok THEN Outcome(self, found, <<>>)
        ELSE
        LET allocation_size == layout_size(found.value.entry)
            call == hv_vm_map(found.value.entry.base_address, guest_address,
                              allocation_size, hv_memory_flags_from(permission))
            converted == convert_hv_return(ret)
            mapping_handle == get_next_value(self.mapping_counter)
            virtual_mapping == [allocation_handle |-> allocation_handle,
                                mapping_handle |-> mapping_handle,
                                address |-> guest_address,
                                size |-> allocation_size,
                                permission |-> permission]
        IN  IF ~converted.ok THEN Outcome(self, converted, <<call>>)
            ELSE Outcome([self EXCEPT !.mapping_counter = mapping_handle,
                                      !.mapping_list = Append(@, virtual_mapping)],
                         Ok(mapping_handle), <<call>>)

\* Faulty variant: the mapping handle is the length of the list after the push.
map_handle_from_len(self, allocation_handle, guest_address, permission, ret) ==
    LET found == find_allocation_by_handle(self, allocation_handle)
    IN  IF ~found.ok THEN Outcome(self, found, <<>>)
        ELSE
        LET allocation_size == layout_size(found.value.entry)
            call == hv_vm_map(found.value.entry.base_address, guest_address,
                              allocation_size, hv_memory_flags_from(permission))
            converted == convert_hv_return(ret)
            mapping_handle == Len(self.mapping_list) + 1
            virtual_mapping == [allocation_handle |-> allocation_handle,
                                mapping_handle |-> mapping_handle,
                                address |-> guest_address,
                                size |-> allocation_size,
                                permission |-> permission]
        IN  IF is_misaligned(guest_address)
            THEN Outcome(self, Err(HypervisorError("MisalignedAddress")), <<>>)
            ELSE IF ~converted.ok THEN Outcome(self, converted, <<call>>)
            ELSE Outcome([self EXCEPT !.mapping_counter = get_next_value(@),
                                      !.mapping_list = Append(@, virtual_mapping)],
                         Ok(mapping_handle), <<call>>)

\* Faulty variant: the mapping handle is taken from the counter before the
\* native call, so a failed call consumes it.
map_handle_before_native(self, allocation_handle, guest_address, permission, ret) ==
    LET found == find_allocation_by_handle(self, allocation_handle)
    IN  IF ~found.ok THEN Outcome(self, found, <<>>)
        ELSE
        LET allocation_size == layout_size(found.value.entry)
            call == hv_vm_map(found.value.entry.base_address, guest_address,
                              allocation_size, hv_memory_flags_from(permission))
            converted == convert_hv_return(ret)
            mapping_handle == get_next_value(self.mapping_counter)
            counted == [self EXCEPT !.mapping_counter = mapping_handle]
            virtual_mapping == [allocation_handle |-> allocation_handle,
                                mapping_handle |-> mapping_handle,
                                address |-> guest_address,
                                size |-> allocation_size,
                                permission |-> permission]
        IN  IF is_misaligned(guest_address)
            THEN Outcome(self, Err(HypervisorError("MisalignedAddress")), <<>>)
            ELSE IF ~converted.ok THEN Outcome(counted, converted, <<call>>)
            ELSE Outcome([counted EXCEPT !.mapping_list = Append(@, virtual_mapping)],
                         Ok(mapping_handle), <<call>>)

\* Faulty variant: the mapping is recorded whatever hv_vm_map returned.
map_records_on_failure(self, allocation_handle, guest_address, permission, ret) ==
    LET found == find_allocation_by_handle(self, allocation_handle)
    IN  IF ~found.ok THEN Outcome(self, found, <<>>)
        ELSE
        LET allocation_size == layout_size(found.value.entry)
            call == hv_vm_map(found.value.entry.base_address, guest_address,
                              allocation_size, hv_memory_flags_from(permission))
            converted == convert_hv_return(ret)
            mapping_handle == get_next_value(self.mapping_counter)
            virtual_mapping == [allocation_handle |-> allocation_handle,
                                mapping_handle |-> mapping_handle,
                                address |-> guest_address,
                                size |-> allocation_size,
                                permission |-> permission]
            recorded == [self EXCEPT !.mapping_counter = mapping_handle,
                                     !.mapping_list = Append(@, virtual_mapping)]
        IN  IF is_misaligned(guest_address)
            THEN Outcome(self, Err(HypervisorError("MisalignedAddress")), <<>>)
            ELSE IF ~converted.ok THEN Outcome(recorded, converted, <<call>>)
            ELSE Outcome(recorded, Ok(mapping_handle), <<call>>)

\* ret: the status hv_vm_map returns when the call is reached.
map(self, allocation_handle, guest_address, permission, ret) ==
    LET found == find_allocation_by_handle(self, allocation_handle)
    IN  IF ~found.ok THEN Outcome(self, found, <<>>)
        ELSE
        LET allocation_size == layout_size(found.value.entry)
            call == hv_vm_map(found.value.entry.base_address, guest_address,
                              allocation_size, hv_memory_flags_from(permission))
            converted == convert_hv_return(ret)
            mapping_handle == get_next_value(self.mapping_counter)
            virtual_mapping == [allocation_handle |-> allocation_handle,
                                mapping_handle |-> mapping_handle,
                                address |-> guest_address,
                                size |-> allocation_size,
                                permission |-> permission]
        IN  IF is_misaligned(guest_address)
            THEN Outcome(self, Err(HypervisorError("MisalignedAddress")), <<>>)
            ELSE IF ~converted.ok THEN Outcome(self, converted, <<call>>)
            ELSE Outcome([self EXCEPT !.mapping_counter = mapping_handle,
                                      !.mapping_list = Append(@, virtual_mapping)],
                         Ok(mapping_handle), <<call>>)

\* Faulty variant: the record is removed before the native status is looked at.
unmap_removes_first(self, mapping_handle, ret) ==
    LET found == find_mapping_by_handle(self, mapping_handle)
    IN  IF ~found.ok THEN Outcome(self, found, <<>>)
        ELSE
        LET mapping == found.value.entry
            call == hv_vm_unmap(mapping.address, mapping.size)
            converted == convert_hv_return(ret)
            removed == [self EXCEPT !.mapping_list = VecRemove(@, found.value.index)]
        IN  IF ~converted.ok THEN Outcome(removed, converted, <<call>>)
            ELSE Outcome(removed, Ok(Unit), <<call>>)

\* Faulty variant: the last record of the list is removed (a pop).
unmap_pops(self, mapping_handle, ret) ==
    LET found == find_mapping_by_handle(self, mapping_handle)
    IN  IF ~found.ok THEN Outcome(self, found, <<>>)
        ELSE
        LET mapping == found.value.entry
            call == hv_vm_unmap(mapping.address, mapping.size)
            converted == convert_hv_return(ret)
        IN  IF ~converted.ok THEN Outcome(self, converted, <<call>>)
            ELSE Outcome([self EXCEPT !.mapping_list = SubSeq(@, 1, Len(@) - 1)],
                         Ok(Unit), <<call>>)

\* ret: the status hv_vm_unmap returns when the call is reached.
unmap(self, mapping_handle, ret) ==
    LET found == find_mapping_by_handle(self, mapping_handle)
    IN  IF ~found.ok THEN Outcome(self, found, <<>>)
        ELSE
        LET mapping == found.value.entry
            call == hv_vm_unmap(mapping.address, mapping.size)
            converted == convert_hv_return(ret)
        IN  IF ~converted.ok THEN Outcome(self, converted, <<call>>)
            ELSE Outcome([self EXCEPT !.mapping_list = VecRemove(@, found.value.index)],
                         Ok(Unit), <<call>>)

\* Faulty variant: the permission is stored before the native status is
\* looked at.
reprotect_stores_first(self, mapping_handle, permission, ret) ==
    LET found == find_mapping_by_handle(self, mapping_handle)
    IN  IF ~found.ok THEN Outcome(self, found, <<>>)
        ELSE
        LET mapping == found.value.entry
            call == hv_vm_protect(mapping.address, mapping.size,
                                  hv_memory_flags_from(permission))
            converted == convert_hv_return(ret)
            i == found.value.index + 1
            stored == [self EXCEPT !.mapping_list[i].permission = permission]
        IN  IF ~converted.ok THEN Outcome(stored, converted, <<call>>)
            ELSE Outcome(stored, Ok(Unit), <<call>>)

\* Faulty variant: the permission is stored in the first record of the list.
reprotect_first_record(self, mapping_handle, permission, ret) ==
    LET found == find_mapping_by_handle(self, mapping_handle)
    IN  IF ~found.ok THEN Outcome(self, found, <<>>)
        ELSE
        LET mapping == found.value.entry
            call == hv_vm_protect(mapping.address, mapping.size,
                                  hv_memory_flags_from(permission))
            converted == convert_hv_return(ret)
        IN  IF ~converted.ok THEN Outcome(self, converted, <<call>>)
            ELSE Outcome([self EXCEPT !.mapping_list[1].permission = permission],
                         Ok(Unit), <<call>>)

\* ret: the status hv_vm_protect returns when the call is reached.
reprotect(self, mapping_handle, permission, ret) ==
    LET found == find_mapping_by_handle(self, mapping_handle)
    IN  IF ~found.ok THEN Outcome(self, found, <<>>)
        ELSE
        LET mapping == found.value.entry
            call == hv_vm_protect(mapping.address, mapping.size,
                                  hv_memory_flags_from(permission))
            converted == convert_hv_return(ret)
            i == found.value.index + 1
        IN  IF ~converted.ok THEN Outcome(self, converted, <<call>>)
            ELSE IF i > Len(self.mapping_list)
            THEN Outcome(self, Err([kind |-> "panic", code |-> 0]), <<call>>)
            ELSE Outcome([self EXCEPT !.mapping_list[i].permission = permission],
                         Ok(Unit), <<call>>)

\* Faulty variant: the first record of the list, whatever the handle.
get_mapping_info_first(self, mapping_handle) ==
    IF self.mapping_list = <<>> THEN Err(HypervisorError("InvalidHandle"))
    ELSE Ok(self.mapping_list[1])

get_mapping_info(self, mapping_handle) ==
    LET found == find_mapping_by_handle(self, mapping_handle)
    IN  IF ~found.ok THEN found ELSE Ok(found.value.entry)

get_all_mapping_infos(self) == self.mapping_list

(***************************************************************************)
(* Creation and destruction of the VirtualMachine.                         *)
(***************************************************************************)
hv_vm_create(config) == [fn |-> "hv_vm_create", config |-> config]

hv_vm_destroy == [fn |-> "hv_vm_destroy"]

\* Faulty variant: the allocation counter of a new instance starts at 1.
VirtualMachine_new_counter_from_one(config, ret) ==
    LET handle == IF config = "None" THEN NullPointer ELSE config
        converted == convert_hv_return(ret)
        created == [allocation_counter |-> 1, mapping_counter |-> 0,
                    allocation_list |-> <<>>, mapping_list |-> <<>>]
    IN  [result |-> IF converted.ok THEN Ok(created) ELSE converted,
         native |-> <<hv_vm_create(handle)>>]

\* Faulty variant: a guard refuses the construction while an instance
\* lives, before any native call.
VirtualMachine_new_guarded(config, ret) ==
    LET handle == IF config = "None" THEN NullPointer ELSE config
        converted == convert_hv_return(ret)
        created == [allocation_counter |-> 0, mapping_counter |-> 0,
                    allocation_list |-> <<>>, mapping_list |-> <<>>]
    IN  IF vm_state = "Created"
        THEN [result |-> Err(HypervisorError("Busy")), native |-> <<>>]
        ELSE [result |-> IF converted.ok THEN Ok(created) ELSE converted,
              native |-> <<hv_vm_create(handle)>>]

\* Faulty variant: the struct is made whatever hv_vm_create returned.
VirtualMachine_new_ignores_status(config, ret) ==
    LET handle == IF config = "None" THEN NullPointer ELSE config
        created == [allocation_counter |-> 0, mapping_counter |-> 0,
                    allocation_list |-> <<>>, mapping_list |-> <<>>]
    IN  [result |-> Ok(created), native |-> <<hv_vm_create(handle)>>]

\* VirtualMachine::new(config): hv_vm_create, then on success a struct with
\* both counters at Counter::default() and both lists empty.  There is no
\* struct before the call, so the outcome has no `self`: the new struct is
\* the value of the result.
VirtualMachine_new(config, ret) ==
    LET handle == IF config = "None" THEN NullPointer ELSE config
        converted == convert_hv_return(ret)
        created == [allocation_counter |-> 0, mapping_counter |-> 0,
                    allocation_list |-> <<>>, mapping_list |-> <<>>]
    IN  [result |-> IF converted.ok THEN Ok(created) ELSE converted,
         native |-> <<hv_vm_create(handle)>>]

\* The loop of Drop for VirtualMachine over the clone get_all_mapping_infos
\* returned: unmap(mapping.mapping_handle).expect(..) for each element, rets
\* holding the status of the native call of each unmap in turn.
RECURSIVE drop_unmap_all(_, _, _)
drop_unmap_all(self, mappings, rets) ==
    IF mappings = <<>> THEN Outcome(self, Ok(Unit), <<>>)
    ELSE LET unmapped == unmap(self, Head(mappings).mapping_handle, Head(rets))
         IN  IF ~unmapped.result.ok
             THEN Outcome(unmapped.self, Panic("Cannot unmap memory on VM drop!"),
                          unmapped.native)
             ELSE LET rest == drop_unmap_all(unmapped.self, Tail(mappings), Tail(rets))
                  IN  Outcome(rest.self, rest.result, unmapped.native \o rest.native)

\* Faulty variant: hv_vm_destroy is called first, the mappings are unmapped
\* after it.
VirtualMachine_drop_destroys_first(self, rets, ret) ==
    LET call == hv_vm_destroy
        converted == convert_hv_return(ret)
        unmapped == drop_unmap_all(self, get_all_mapping_infos(self), rets)
    IN  IF ~converted.ok
        THEN Outcome(self, Panic("Cannot destroy VM on drop!"), <<call>>)
        ELSE Outcome(unmapped.self, unmapped.result, <<call>> \o unmapped.native)

\* Faulty variant: the result of a failed unmap is dropped and the teardown
\* goes on to hv_vm_destroy.
VirtualMachine_drop_ignores_unmap(self, rets, ret) ==
    LET unmapped == drop_unmap_all(self, get_all_mapping_infos(self), rets)
        call == hv_vm_destroy
        converted == convert_hv_return(ret)
    IN  IF ~converted.ok
        THEN Outcome(unmapped.self, Panic("Cannot destroy VM on drop!"),
                     unmapped.native \o <<call>>)
        ELSE Outcome(unmapped.self, Ok(Unit), unmapped.native \o <<call>>)

\* Faulty variant: the teardown destroys the vCPU that is live before it
\* destroys the VM.
VirtualMachine_drop_destroys_vcpus(self, rets, ret) ==
    LET unmapped == drop_unmap_all(self, get_all_mapping_infos(self), rets)
        vcpus == IF vcpu_state = "Created"
                 THEN <<[fn |-> "hv_vcpu_destroy", vcpu |-> vcpu.handle]>>
                 ELSE <<>>
        call == hv_vm_destroy
        converted == convert_hv_return(ret)
    IN  IF ~unmapped.result.ok THEN unmapped
        ELSE IF ~converted.ok
        THEN Outcome(unmapped.self, Panic("Cannot destroy VM on drop!"),
                     unmapped.native \o vcpus \o <<call>>)
        ELSE Outcome(unmapped.self, Ok(Unit), unmapped.native \o vcpus \o <<call>>)

\* Drop for VirtualMachine: the unmap loop, then hv_vm_destroy with status
\* ret and the expect on its conversion.  A panic is the result
\* Panic(message); the calls after it are not made.
VirtualMachine_drop(self, rets, ret) ==
    LET unmapped == drop_unmap_all(self, get_all_mapping_infos(self), rets)
        call == hv_vm_destroy
        converted == convert_hv_return(ret)
    IN  IF ~unmapped.result.ok THEN unmapped
        ELSE IF ~converted.ok
        THEN Outcome(unmapped.self, Panic("Cannot destroy VM on drop!"),
                     unmapped.native \o <<call>>)
        ELSE Outcome(unmapped.self, Ok(Unit), unmapped.native \o <<call>>)

(***************************************************************************)
(* The vCPU (src/src/vcpu.rs).                                             *)
(***************************************************************************)
\* hv_exit_reason_t, as the Hypervisor framework defines it.
HV_EXIT_REASON_CANCELED == 0

HV_EXIT_REASON_EXCEPTION == 1

HV_EXIT_REASON_VTIMER_ACTIVATED == 2

HV_EXIT_REASON_UNKNOWN == 3

\* A reason code the framework does not define.
UnlistedReason == HV_EXIT_REASON_UNKNOWN + 1

\* enum VirtualCpuExitReason.
Cancelled == [tag |-> "Cancelled"]

Exception(exception) == [tag |-> "Exception", exception |-> exception]

VTimerActivated == [tag |-> "VTimerActivated"]

Unknown == [tag |-> "Unknown"]

\* Faulty variant: the reason CANCELED falls to the arm of the unlisted reasons.
VirtualCpuExitReason_from_cancel_unlisted(value) ==
    CASE value.reason = HV_EXIT_REASON_EXCEPTION -> Exception(value.exception)
      [] value.reason = HV_EXIT_REASON_VTIMER_ACTIVATED -> VTimerActivated
      [] OTHER -> Unknown

\* From<hv_vcpu_exit_t> for VirtualCpuExitReason.
VirtualCpuExitReason_from(value) ==
    CASE value.reason = HV_EXIT_REASON_CANCELED -> Cancelled
      [] value.reason = HV_EXIT_REASON_EXCEPTION -> Exception(value.exception)
      [] value.reason = HV_EXIT_REASON_VTIMER_ACTIVATED -> VTimerActivated
      [] value.reason = HV_EXIT_REASON_UNKNOWN -> Unknown
      [] OTHER -> Unknown

hv_vcpu_create(config) == [fn |-> "hv_vcpu_create", config |-> config]

hv_vcpu_run(vcpu_handle) == [fn |-> "hv_vcpu_run", vcpu |-> vcpu_handle]

hv_vcpus_exit(vcpus, vcpu_count) ==
    [fn |-> "hv_vcpus_exit", vcpus |-> vcpus, vcpu_count |-> vcpu_count]

hv_vcpu_destroy(vcpu_handle) == [fn |-> "hv_vcpu_destroy", vcpu |-> vcpu_handle]

\* The pointer to the exit record hv_vcpu_create hands out.
ExitPointer == "exit record"

\* VirtualMachine::create_vcpu(config): hv_vcpu_create writes the handle
\* and the pointer to the exit record (created) into the two locals, which
\* start as 0 and null; on success they make the VirtualCpu.
create_vcpu(config, created, ret) ==
    LET handle == IF config = "None" THEN NullPointer ELSE config
        converted == convert_hv_return(ret)
    IN  [result |-> IF converted.ok
                    THEN Ok([handle |-> created.handle,
                             vcpu_exit |-> created.vcpu_exit])
                    ELSE converted,
         native |-> <<hv_vcpu_create(handle)>>]

\* Faulty variant: the exit record is decoded whatever hv_vcpu_run returned.
run_ignores_status(self, exit_record, ret) ==
    Outcome(self, Ok(VirtualCpuExitReason_from(exit_record)),
            <<hv_vcpu_run(self.handle)>>)

\* Faulty variant: a call the native layer refused is reported as a
\* cancellation.
run_error_as_cancelled(self, exit_record, ret) ==
    LET call == hv_vcpu_run(self.handle)
        converted == convert_hv_return(ret)
    IN  IF ~converted.ok THEN Outcome(self, Ok(Cancelled), <<call>>)
        ELSE Outcome(self, Ok(VirtualCpuExitReason_from(exit_record)), <<call>>)

\* VirtualCpu::run: hv_vcpu_run with status ret, then the decoding of
\* *self.vcpu_exit, which holds exit_record when the native call is back.
run(self, exit_record, ret) ==
    LET call == hv_vcpu_run(self.handle)
        converted == convert_hv_return(ret)
    IN  IF ~converted.ok THEN Outcome(self, converted, <<call>>)
        ELSE Outcome(self, Ok(VirtualCpuExitReason_from(exit_record)), <<call>>)

\* VirtualCpu::exit: hv_vcpus_exit(&mut self.handle, 1).
exit(self, ret) ==
    Outcome(self, convert_hv_return(ret), <<hv_vcpus_exit(<<self.handle>>, 1)>>)

\* n as u32: the low 32 bits of a usize, n modulo 2^32 (2^16 * 2^16).
as_u32(n) == n - (((n \div 65536) \div 65536) * 65536) * 65536

\* Faulty variant: the count passed is 1 whatever the length of the list.
exit_vcpus_counts_one(self, vcpus, ret) ==
    Outcome(self, convert_hv_return(ret), <<hv_vcpus_exit(vcpus, 1)>>)

\* VirtualMachine::exit_vcpus:
\* hv_vcpus_exit(vcpus.as_mut_ptr(), vcpus.len() as u32).
exit_vcpus(self, vcpus, ret) ==
    Outcome(self, convert_hv_return(ret), <<hv_vcpus_exit(vcpus, as_u32(Len(vcpus)))>>)

\* The native layer on the call hv_vcpus_exit(vcpus, vcpu_count) returning
\* ret: on success it holds an exit request for each of the first
\* vcpu_count vCPUs of the list, target among them if it is one of these;
\* pending says whether it held one for target before.
exit_requested(pending, call, target, ret) ==
    pending \/ (ret = HV_SUCCESS /\ \E i \in 1..call.vcpu_count :
                                        i <= Len(call.vcpus) /\ call.vcpus[i] = target)

\* The native layer on a hv_vcpu_run in flight: with an exit request pending
\* it returns with the reason CANCELED; with none it returns when the guest
\* traps, with the reason of the trap.  It has no timeout.
hv_vcpu_run_returns(pending, exit_record) ==
    IF pending THEN exit_record.reason = HV_EXIT_REASON_CANCELED
    ELSE exit_record.reason # HV_EXIT_REASON_CANCELED

\* Faulty variant: hv_vcpu_destroy is called first, the exit request after it.
VirtualCpu_drop_destroys_first(self, exit_ret, destroy_ret) ==
    LET call == hv_vcpu_destroy(self.handle)
        converted == convert_hv_return(destroy_ret)
        exited == exit(self, exit_ret)
    IN  IF ~converted.ok
        THEN Outcome(self, Panic("Cannot destroy vCPU on drop!"), <<call>>)
        ELSE IF ~exited.result.ok
        THEN Outcome(self, Panic("Cannot exit vCPU on drop!"),
                     <<call>> \o exited.native)
        ELSE Outcome(self, Ok(Unit), <<call>> \o exited.native)

\* Drop for VirtualCpu: self.exit().expect(..), then hv_vcpu_destroy and
\* the expect on its conversion.
VirtualCpu_drop(self, exit_ret, destroy_ret) ==
    LET exited == exit(self, exit_ret)
        call == hv_vcpu_destroy(self.handle)
        converted == convert_hv_return(destroy_ret)
    IN  IF ~exited.result.ok
        THEN Outcome(self, Panic("Cannot exit vCPU on drop!"), exited.native)
        ELSE IF ~converted.ok
        THEN Outcome(self, Panic("Cannot destroy vCPU on drop!"),
                     exited.native \o <<call>>)
        ELSE Outcome(self, Ok(Unit), exited.native \o <<call>>)

(***************************************************************************)
(* Inputs of the calls.                                                    *)
(***************************************************************************)
\* Every handle a counter can have issued, and 0, which is never issued.
AllocationHandleInputs == 0..MaxAllocations

MappingHandleInputs == 0..MaxMappings

\* allocate(65537) has a two-page buffer, allocate_from of one byte a one-page one.
SizeInputs == {PAGE_SIZE + 1}

SourceInputs == {<<7>>}

\* A page-aligned guest address, and one aligned to 4 KiB but not to the page.
AddressInputs == {2 * PAGE_SIZE, PAGE_SIZE + 4096}

\* map is called with READ_WRITE; reprotect changes to EXECUTE and back.
MapPermissionInputs == {READ_WRITE}

PermissionInputs == {READ_WRITE, EXECUTE}

\* The statuses the native calls return in the state machine.
NativeStatusInputs == {HV_SUCCESS, HV_BAD_ARGUMENT}

AllNativeStatus ==
    {HV_SUCCESS, HV_ERROR, HV_BUSY, HV_BAD_ARGUMENT, HV_ILLEGAL_GUEST_STATE,
     HV_NO_RESOURCES, HV_NO_DEVICE, HV_DENIED, HV_UNSUPPORTED, UnlistedStatus}

(***************************************************************************)
(* The state machine.                                                      *)
(***************************************************************************)
\* The configuration VirtualMachine::new is called with: None.
ConfigInputs == {"None"}

\* The handles hv_vcpu_create gives to vCPUs.
VcpuHandleInputs == {0, 1}

\* The exception details of an exit record: syndrome and the two addresses.
ExceptionInputs ==
    {[syndrome |-> 0, virtual_address |-> 0, physical_address |-> 0],
     [syndrome |-> 1, virtual_address |-> PAGE_SIZE, physical_address |-> 2 * PAGE_SIZE]}

ReasonInputs ==
    {HV_EXIT_REASON_CANCELED, HV_EXIT_REASON_EXCEPTION,
     HV_EXIT_REASON_VTIMER_ACTIVATED, HV_EXIT_REASON_UNKNOWN, UnlistedReason}

\* The exit records the native layer can leave.
ExitRecordInputs == [reason : ReasonInputs, exception : ExceptionInputs]

\* The caller holds no mutable slice.
NoView == [handle |-> 0, slice |-> <<>>]

\* No run() has returned yet.
NoResult == Err([kind |-> "no result", code |-> 0])

\* No vCPU has been created: the locals of create_vcpu before the native
\* call, an exit record never written.
InitVcpu ==
    /\ vcpu_state = "None"
    /\ vcpu = [handle |-> 0, vcpu_exit |-> NullPointer]
    /\ vcpu_exit = [reason |-> HV_EXIT_REASON_CANCELED,
                    exception |-> [syndrome |-> 0, virtual_address |-> 0,
                                   physical_address |-> 0]]
    /\ vcpu_result = NoResult
    /\ vcpu_log = <<>>
    /\ exit_pending = FALSE
    /\ exit_result = [result |-> NoResult, vcpus |-> <<>>, vcpu_count |-> 0]
    /\ view = NoView

\* VirtualMachine::new after a successful hv_vm_create, in a process that
\* had no instance before.
Init ==
    /\ allocation_counter = 0
    /\ mapping_counter = 0
    /\ allocation_list = <<>>
    /\ mapping_list = <<>>
    /\ vm_state = "Created"
    /\ native_log = VirtualMachine_new("None", HV_SUCCESS).native
    /\ returned_here = {}
    /\ returned_before = {}
    /\ second_vm = "None"
    /\ native_mappings = {}
    /\ released = {}
    /\ InitVcpu

\* The struct a call leaves.
Store(self) ==
    /\ allocation_counter' = self.allocation_counter
    /\ mapping_counter' = self.mapping_counter
    /\ allocation_list' = self.allocation_list
    /\ mapping_list' = self.mapping_list

\* The state after a call of a method of the living instance.
Apply(outcome) ==
    /\ Store(outcome.self)
    /\ UNCHANGED <<vm_state, native_log, returned_here, returned_before, second_vm,
                   native_mappings, released>>
    /\ UNCHANGED <<vcpu_vars, run_vars>>

\* The state after allocate or allocate_from: the handle the caller got is
\* added to those the instance has returned.
ApplyAllocation(outcome) ==
    /\ Store(outcome.self)
    /\ returned_here' = IF outcome.result.ok
                        THEN returned_here \cup {outcome.result.value}
                        ELSE returned_here
    /\ UNCHANGED <<vm_state, native_log, returned_before, second_vm, native_mappings, released>>
    /\ UNCHANGED <<vcpu_vars, run_vars>>

\* The statuses a native call can return, if the call is reached at all.
StatusChoices(reached) == IF reached THEN NativeStatusInputs ELSE {HV_SUCCESS}

Allocate ==
    /\ allocation_counter < MaxAllocations
    /\ \E size \in SizeInputs :
          ApplyAllocation(allocate(VirtualMachine, size, BufferPointer))

AllocateFrom ==
    /\ allocation_counter < MaxAllocations
    /\ \E source \in SourceInputs :
          \E ub \in UndefinedBehaviourInputs :
              ApplyAllocation(allocate_from(VirtualMachine, source, BufferPointer, ub))

\* deallocate: Vec::remove returns the allocation, which is dropped, so its
\* buffer is released.
Deallocate ==
    \E h \in AllocationHandleInputs :
        LET o == deallocate(VirtualMachine, h)
        IN  /\ Store(o.self)
            /\ released' = IF o.result.ok
                           THEN released \cup
                                {[handle |-> h,
                                  mapped |-> natively_mapped(VirtualMachine,
                                                             native_mappings, h)]}
                           ELSE released
            /\ UNCHANGED <<vm_state, native_log, returned_here, returned_before,
                           second_vm, native_mappings>>
            /\ UNCHANGED <<vcpu_vars, run_vars>>

Map ==
    \E h \in AllocationHandleInputs, a \in AddressInputs, p \in MapPermissionInputs :
        \E ret \in StatusChoices(map(VirtualMachine, h, a, p, HV_SUCCESS).native # <<>>) :
            /\ (ret = HV_SUCCESS /\ map(VirtualMachine, h, a, p, ret).result.ok)
                  => mapping_counter < MaxMappings
            /\ Apply(map(VirtualMachine, h, a, p, ret))

Unmap ==
    \E m \in MappingHandleInputs :
        \E ret \in StatusChoices(unmap(VirtualMachine, m, HV_SUCCESS).native # <<>>) :
            Apply(unmap(VirtualMachine, m, ret))

Reprotect ==
    \E m \in MappingHandleInputs, p \in PermissionInputs :
        \E ret \in StatusChoices(reprotect(VirtualMachine, m, p, HV_SUCCESS).native # <<>>) :
            Apply(reprotect(VirtualMachine, m, p, ret))

Next ==
    \/ Allocate
    \/ AllocateFrom
    \/ Deallocate
    \/ Map
    \/ Unmap
    \/ Reprotect

Spec == Init /\ [][Next]_vars

(***************************************************************************)
(* The state machine with an allocator that can run out of memory:         *)
(* alloc_zeroed then returns the null pointer, which                       *)
(* VirtualMachineAllocation::new stores without a test.                    *)
(***************************************************************************)
PointerInputs == {BufferPointer, NullPointer}

\* allocate while the allocator is out of memory.
AllocateExhausted ==
    /\ vm_state = "Created"
    /\ allocation_counter < MaxAllocations
    /\ \E size \in SizeInputs :
          ApplyAllocation(allocate(VirtualMachine, size, NullPointer))

\* allocate_from while the allocator is out of memory: the allocation is
\* recorded with the null pointer, and the slice made from it is undefined
\* behaviour, which aborts the process or returns NoResources.
AllocateFromExhausted ==
    /\ vm_state = "Created"
    /\ allocation_counter < MaxAllocations
    /\ \E source \in SourceInputs, ub \in UndefinedBehaviourInputs :
          LET o == allocate_from(VirtualMachine, source, NullPointer, ub)
          IN  /\ Store(o.self)
              /\ returned_here' = IF o.result.ok
                                  THEN returned_here \cup {o.result.value}
                                  ELSE returned_here
              /\ vm_state' = IF (~o.result.ok) /\ o.result.err.kind = "abort"
                             THEN "Aborted"
                             ELSE vm_state
    /\ UNCHANGED <<native_log, returned_before, second_vm, native_mappings, released>>
    /\ UNCHANGED <<vcpu_vars, run_vars>>

\* The calls of the living instance.
CallAlloc ==
    /\ vm_state = "Created"
    /\ Next

NextAlloc ==
    \/ CallAlloc
    \/ AllocateExhausted
    \/ AllocateFromExhausted

SpecAlloc == Init /\ [][NextAlloc]_vars

(***************************************************************************)
(* The state machine of the tracker together with the mappings the native  *)
(* layer holds: each native call of map, unmap and reprotect returns a     *)
(* status the native layer can return in its state, and has its effect     *)
(* there.                                                                  *)
(***************************************************************************)
\* Guest addresses two pages apart, the size of an allocation, and one
\* between them.
NativeAddressInputs == {0, PAGE_SIZE, 2 * PAGE_SIZE}

\* The state after a call whose native call, if one was made, returned ret.
ApplyNative(outcome, ret) ==
    /\ Store(outcome.self)
    /\ native_mappings' = IF outcome.native = <<>> THEN native_mappings
                          ELSE hv_effect(native_mappings, outcome.native[1], ret)
    /\ UNCHANGED <<vm_state, native_log, returned_here, returned_before, second_vm,
                   released>>
    /\ UNCHANGED <<vcpu_vars, run_vars>>

\* The statuses of the native call the outcome made, HV_SUCCESS standing
\* for the call that was not made.
NativeStatusChoices(outcome) ==
    IF outcome.native = <<>> THEN {HV_SUCCESS}
    ELSE hv_statuses(native_mappings, outcome.native[1])

MapNative ==
    \E h \in AllocationHandleInputs, a \in NativeAddressInputs, p \in MapPermissionInputs :
        \E ret \in NativeStatusChoices(map(VirtualMachine, h, a, p, HV_SUCCESS)) :
            /\ (ret = HV_SUCCESS /\ map(VirtualMachine, h, a, p, ret).result.ok)
                  => mapping_counter < MaxMappings
            /\ ApplyNative(map(VirtualMachine, h, a, p, ret), ret)

UnmapNative ==
    \E m \in MappingHandleInputs :
        \E ret \in NativeStatusChoices(unmap(VirtualMachine, m, HV_SUCCESS)) :
            ApplyNative(unmap(VirtualMachine, m, ret), ret)

ReprotectNative ==
    \E m \in MappingHandleInputs, p \in PermissionInputs :
        \E ret \in NativeStatusChoices(reprotect(VirtualMachine, m, p, HV_SUCCESS)) :
            ApplyNative(reprotect(VirtualMachine, m, p, ret), ret)

NextNative ==
    \/ Allocate
    \/ Deallocate
    \/ MapNative
    \/ UnmapNative
    \/ ReprotectNative

SpecNative == Init /\ [][NextNative]_vars

(***************************************************************************)
(* The state machine of a process that creates a VirtualMachine, uses it,  *)
(* drops it and creates the next one.  At most one instance lives at a     *)
(* time, as the documentation of VirtualMachine::new asks.                 *)
(***************************************************************************)
InitLife ==
    /\ allocation_counter = 0
    /\ mapping_counter = 0
    /\ allocation_list = <<>>
    /\ mapping_list = <<>>
    /\ vm_state = "Uninitialized"
    /\ native_log = <<>>
    /\ returned_here = {}
    /\ returned_before = {}
    /\ second_vm = "None"
    /\ native_mappings = {}
    /\ released = {}
    /\ InitVcpu

\* The statuses of the native calls of one drop: one for each unmap of the
\* loop.
DropStatusInputs(n) == [1..n -> NativeStatusInputs]

\* VirtualMachine::new while no instance lives: before the first one, after
\* a drop that returned, or after a drop whose panic unwound and was
\* caught.  It tests nothing but the status of hv_vm_create.
New ==
    /\ vm_state \in {"Uninitialized", "Destroyed", "Panicked"}
    /\ \E config \in ConfigInputs, ret \in NativeStatusInputs :
          LET o == VirtualMachine_new(config, ret)
          IN  /\ native_log' = o.native
              /\ IF o.result.ok
                 THEN /\ Store(o.result.value)
                      /\ vm_state' = "Created"
                 ELSE UNCHANGED <<allocation_counter, mapping_counter,
                                  allocation_list, mapping_list, vm_state>>
              /\ UNCHANGED <<returned_here, returned_before, second_vm, native_mappings, released>>
              /\ UNCHANGED <<vcpu_vars, run_vars>>

\* What a panic does, which the build decides.
PanicStrategyInputs == {"unwind", "abort"}

\* The instance goes out of scope: Drop::drop, then the drop of the fields,
\* which releases the buffers of the allocations that are left.  The fields
\* are dropped after Drop::drop has returned, and also when it panics and
\* the panic unwinds, after which the process goes on (Panicked); a build
\* whose panics abort drops nothing and ends the process (Aborted).
Drop ==
    /\ vm_state = "Created"
    /\ \E rets \in DropStatusInputs(Len(mapping_list)), ret \in NativeStatusInputs,
          strategy \in PanicStrategyInputs :
          LET o == VirtualMachine_drop(VirtualMachine, rets, ret)
              native == hv_effects(native_mappings, o.native, rets \o <<ret>>)
              fields_dropped == o.result.ok \/ strategy = "unwind"
          IN  /\ native_log' = o.native
              /\ native_mappings' = native
              /\ vm_state' = IF o.result.ok THEN "Destroyed"
                             ELSE IF strategy = "unwind" THEN "Panicked"
                             ELSE "Aborted"
              /\ released' = IF fields_dropped
                             THEN released \cup VirtualMachineAllocation_drop_all(o.self, native)
                             ELSE released
              /\ Store(IF fields_dropped
                       THEN [o.self EXCEPT !.allocation_list = <<>>, !.mapping_list = <<>>]
                       ELSE o.self)
              /\ returned_before' = returned_before \cup returned_here
              /\ returned_here' = {}
    /\ UNCHANGED <<second_vm, vcpu_vars, run_vars>>

Call ==
    /\ vm_state = "Created"
    /\ Next

NextLife ==
    \/ New
    \/ Drop
    \/ Call

SpecLife == InitLife /\ [][NextLife]_vars

(***************************************************************************)
(* The state machine of a process that does not keep to one instance: it   *)
(* calls VirtualMachine::new while an instance lives.  Nothing but the     *)
(* native call stands between the call and a second struct.                *)
(***************************************************************************)
\* VirtualMachine::new while the first instance lives and the caller holds
\* no second one: none was made, the last one was dropped, or its drop
\* panicked and the panic was caught.
NewSecond ==
    /\ vm_state = "Created"
    /\ second_vm \in {"None", "Panicked"}
    /\ \E config \in ConfigInputs, ret \in NativeStatusInputs :
          LET o == VirtualMachine_new(config, ret)
          IN  /\ native_log' = o.native
              /\ second_vm' = IF o.result.ok THEN "Created" ELSE second_vm
    /\ UNCHANGED <<allocation_counter, mapping_counter, allocation_list,
                   mapping_list, vm_state, returned_here, returned_before,
                   native_mappings, released>>
    /\ UNCHANGED <<vcpu_vars, run_vars>>

\* The second instance, which was not used, goes out of scope.  It has no
\* allocation, so its fields release nothing.
DropSecond ==
    /\ second_vm = "Created"
    /\ vm_state # "Aborted"
    /\ \E ret \in NativeStatusInputs :
          LET unused == VirtualMachine_new("None", HV_SUCCESS).result.value
              o == VirtualMachine_drop(unused, <<>>, ret)
          IN  /\ native_log' = o.native
              /\ second_vm' = IF o.result.ok THEN "None" ELSE "Panicked"
    /\ UNCHANGED <<allocation_counter, mapping_counter, allocation_list,
                   mapping_list, vm_state, returned_here, returned_before,
                   native_mappings, released>>
    /\ UNCHANGED <<vcpu_vars, run_vars>>

\* The first instance is given allocations and mappings.
CallSecond ==
    /\ vm_state = "Created"
    /\ (Allocate \/ Map)

NextSecond ==
    \/ New
    \/ Drop
    \/ CallSecond
    \/ NewSecond
    \/ DropSecond

SpecSecond == InitLife /\ [][NextSecond]_vars

(***************************************************************************)
(* The state machine of the buffers: the tracker with the native mappings, *)
(* the release of a buffer by deallocate, and the drop of the              *)
(* VirtualMachine.                                                         *)
(***************************************************************************)
CallRelease ==
    /\ vm_state = "Created"
    /\ (Allocate \/ Deallocate \/ MapNative \/ UnmapNative)

NextRelease ==
    \/ CallRelease
    \/ Drop

SpecRelease == Init /\ [][NextRelease]_vars

(***************************************************************************)
(* The vCPUs of a VirtualMachine: a vCPU is created and dropped; then the   *)
(* next one is created.                                                    *)
(***************************************************************************)
\* create_vcpu with the handle hv_vcpu_create gives among handles and its
\* status among statuses, while the caller holds no VirtualCpu: none was
\* made, the last one was dropped, or its drop panicked and the panic was
\* caught.  The native layer holds no exit request for a vCPU it has just
\* created.
CreateVcpuFrom(handles, statuses) ==
    /\ vcpu_state \in {"None", "Destroyed", "Panicked"}
    /\ \E config \in ConfigInputs, h \in handles, ret \in statuses :
          LET o == create_vcpu(config, [handle |-> h, vcpu_exit |-> ExitPointer], ret)
          IN  /\ vcpu_log' = o.native
              /\ IF o.result.ok
                 THEN /\ vcpu' = o.result.value
                      /\ vcpu_state' = "Created"
                      /\ vcpu_result' = NoResult
                 ELSE UNCHANGED <<vcpu, vcpu_state, vcpu_result>>
              /\ UNCHANGED vcpu_exit
    /\ exit_pending' = FALSE
    /\ UNCHANGED <<vm_vars, exit_result, view>>

CreateVcpu == CreateVcpuFrom(VcpuHandleInputs, NativeStatusInputs)

DropVcpu ==
    /\ vcpu_state = "Created"
    /\ vm_state # "Aborted"
    /\ \E exit_ret \in NativeStatusInputs, destroy_ret \in NativeStatusInputs :
          LET o == VirtualCpu_drop(vcpu, exit_ret, destroy_ret)
          IN  /\ vcpu' = o.self
              /\ vcpu_log' = o.native
              /\ vcpu_state' = IF o.result.ok THEN "Destroyed" ELSE "Panicked"
    /\ UNCHANGED <<vcpu_exit, vcpu_result, vm_vars, run_vars>>

(***************************************************************************)
(* The state machine of a vCPU whose run() is in flight while other        *)
(* threads call exit() or exit_vcpus().  run() is two steps: the call of   *)
(* hv_vcpu_run, and its return, which the native layer decides.            *)
(***************************************************************************)
\* run() calls hv_vcpu_run.  A call the native layer refuses returns its
\* status at once and run() returns the converted error; otherwise the
\* guest executes and the call is in flight.
RunCallFrom(statuses) ==
    /\ vcpu_state = "Created"
    /\ \E ret \in statuses :
          LET o == run(vcpu, vcpu_exit, ret)
          IN  /\ vcpu_log' = o.native
              /\ vcpu' = o.self
              /\ IF ret = HV_SUCCESS
                 THEN /\ vcpu_state' = "Running"
                      /\ vcpu_result' = NoResult
                 ELSE /\ vcpu_state' = "Created"
                      /\ vcpu_result' = o.result
    /\ UNCHANGED <<vcpu_exit, vm_vars, run_vars>>

RunCall == RunCallFrom(NativeStatusInputs)

\* hv_vcpu_run returns with exit_record written; run() decodes it.
RunReturn(exit_record) ==
    LET o == run(vcpu, exit_record, HV_SUCCESS)
    IN  /\ vcpu_exit' = exit_record
        /\ vcpu' = o.self
        /\ vcpu_result' = o.result
        /\ vcpu_state' = "Created"
        /\ UNCHANGED vcpu_log

\* The guest traps: hv_vcpu_run returns with the reason of the trap.
GuestExitFrom(records) ==
    /\ vcpu_state = "Running"
    /\ \E exit_record \in records :
          /\ hv_vcpu_run_returns(exit_pending, exit_record)
          /\ ~exit_pending
          /\ RunReturn(exit_record)
    /\ UNCHANGED <<vm_vars, run_vars>>

GuestExit == GuestExitFrom(ExitRecordInputs)

\* The native layer delivers the exit request: hv_vcpu_run returns with
\* the reason CANCELED, and the request is spent.
Cancel ==
    /\ vcpu_state = "Running"
    /\ exit_pending
    /\ \E exit_record \in ExitRecordInputs :
          /\ hv_vcpu_run_returns(exit_pending, exit_record)
          /\ RunReturn(exit_record)
    /\ exit_pending' = FALSE
    /\ UNCHANGED <<vm_vars, exit_result, view>>

\* exit() of the vCPU, from any thread, run() in flight or not.
ExitCall ==
    /\ vcpu_state \in {"Created", "Running"}
    /\ \E ret \in NativeStatusInputs :
          LET o == exit(vcpu, ret)
          IN  /\ exit_result' = [result |-> o.result, vcpus |-> o.native[1].vcpus,
                                  vcpu_count |-> o.native[1].vcpu_count]
              /\ exit_pending' =
                    exit_requested(exit_pending, o.native[1], vcpu.handle, ret)
    /\ UNCHANGED <<vm_vars, vcpu_vars, view>>

\* The lists of handles exit_vcpus is called with.
VcpuListInputs == {<<0>>, <<1>>, <<0, 1>>}

\* exit_vcpus() of the VirtualMachine, from any thread, whether a vCPU
\* lives or not.
ExitVcpus ==
    /\ \E vcpus \in VcpuListInputs, ret \in NativeStatusInputs :
          LET o == exit_vcpus(VirtualMachine, vcpus, ret)
          IN  /\ exit_result' = [result |-> o.result, vcpus |-> o.native[1].vcpus,
                                  vcpu_count |-> o.native[1].vcpu_count]
              /\ exit_pending' =
                    exit_requested(exit_pending, o.native[1], vcpu.handle, ret)
    /\ UNCHANGED <<vm_vars, vcpu_vars, view>>

NextRun ==
    \/ CreateVcpu
    \/ RunCall
    \/ GuestExit
    \/ Cancel
    \/ ExitCall
    \/ ExitVcpus
    \/ DropVcpu

SpecRun == Init /\ [][NextRun]_vars

\* The native layer does not hold an exit request back for ever: a
\* hv_vcpu_run in flight with a request pending returns.
SpecRunFair == SpecRun /\ WF_vars(Cancel)

(***************************************************************************)
(* The state machine of a caller that takes mutable slices of allocations  *)
(* while it maps them and runs a vCPU.  The slice borrows the              *)
(* VirtualMachine mutably, so no method of it is called while the slice is *)
(* held; the VirtualCpu is a value of its own, which run() borrows alone.  *)
(***************************************************************************)
ViewCall ==
    /\ view = NoView
    /\ Next

\* get_allocation_slice_mut(h), which looks at the VirtualMachine alone:
\* the thread that is not inside run() can call it while run() is in flight.
TakeView ==
    /\ view = NoView
    /\ \E h \in AllocationHandleInputs, ub \in UndefinedBehaviourInputs :
          LET r == get_allocation_slice_mut(VirtualMachine, h, ub)
          IN  view' = IF r.ok THEN [handle |-> h, slice |-> r.value] ELSE view
    /\ UNCHANGED <<vm_vars, vcpu_vars, exit_pending, exit_result>>

\* The slice goes out of scope.
ReleaseView ==
    /\ view # NoView
    /\ view' = NoView
    /\ UNCHANGED <<vm_vars, vcpu_vars, exit_pending, exit_result>>

\* One vCPU, created without error, whose guest traps with an exception.
ViewVcpuHandles == {1}

ViewExitRecords ==
    {r \in ExitRecordInputs : r.reason = HV_EXIT_REASON_EXCEPTION /\ r.exception.syndrome = 1}

\* create_vcpu is a method of the VirtualMachine the slice borrows.
ViewCreateVcpu ==
    /\ view = NoView
    /\ CreateVcpuFrom(ViewVcpuHandles, {HV_SUCCESS})

ViewRunCall == RunCallFrom({HV_SUCCESS})

ViewGuestExit == GuestExitFrom(ViewExitRecords)

NextView ==
    \/ ViewCall
    \/ TakeView
    \/ ReleaseView
    \/ ViewCreateVcpu
    \/ ViewRunCall
    \/ ViewGuestExit

SpecView == Init /\ [][NextView]_vars

(***************************************************************************)
(* The state machine of a VirtualMachine and a vCPU created from it, each  *)
(* dropped when its owner lets it go: create_vcpu returns a VirtualCpu     *)
(* that borrows nothing from the VirtualMachine, so either can be dropped  *)
(* first.                                                                  *)
(***************************************************************************)
\* create_vcpu is a method of the VirtualMachine.
CreateVcpuOwned ==
    /\ vm_state = "Created"
    /\ CreateVcpu

NextOwner ==
    \/ CallSecond
    \/ CreateVcpuOwned
    \/ Drop
    \/ DropVcpu

SpecOwner == Init /\ [][NextOwner]_vars

(***************************************************************************)
(* Vocabulary of the properties, stated on the lists themselves.           *)
(***************************************************************************)
\* An allocation with handle h is in the allocation list.
Known(self, h) ==
    \E i \in 1..Len(self.allocation_list) : self.allocation_list[i].handle = h

\* Some recorded mapping references allocation handle h.
Referenced(self, h) ==
    \E i \in 1..Len(self.mapping_list) : self.mapping_list[i].allocation_handle = h

\* A mapping with handle m is in the mapping list.
Recorded(self, m) ==
    \E i \in 1..Len(self.mapping_list) : self.mapping_list[i].mapping_handle = m

\* The values the properties quantify over: wider than the inputs of the
\* state machine, since evaluating a call costs no state.
AllAllocationHandles == 0..(MaxAllocations + 1)

AllMappingHandles == 0..(MaxMappings + 1)

AllAddresses ==
    {0, PAGE_SIZE, 2 * PAGE_SIZE, 1, 4096, PAGE_SIZE - 1, PAGE_SIZE + 4096}

AlignedAddresses == {a \in AllAddresses : a % 65536 = 0}

MisalignedAddresses == {a \in AllAddresses : a % 65536 # 0}

FailureStatus == AllNativeStatus \ {HV_SUCCESS}

(***************************************************************************)
(* C1: in every reachable state, the allocation handle of every recorded   *)
(* mapping is the handle of an allocation that is in the allocation list:  *)
(* no allocation is removed while a recorded mapping references it.        *)
(***************************************************************************)
C1_MappingsReferenceLiveAllocations ==
    \A i \in 1..Len(mapping_list) :
        Known(VirtualMachine, mapping_list[i].allocation_handle)

\* A deallocate has succeeded (a handle that was issued is gone from the
\* allocation list) while mappings of another allocation are recorded.
C1_Witness ==
    /\ \E h \in 1..allocation_counter : ~Known(VirtualMachine, h)
    /\ Len(mapping_list) >= 2

(***************************************************************************)
(* C2: deallocate(h) of a known allocation that a recorded mapping         *)
(* references fails with AllocationStillMapped and changes nothing: the    *)
(* struct is the same (both lists, both counters), no native call is       *)
(* issued, and get_allocation_slice(h) still succeeds.                     *)
(***************************************************************************)
C2_DeallocateMappedFails ==
    \A h \in AllAllocationHandles :
        (Known(VirtualMachine, h) /\ Referenced(VirtualMachine, h)) =>
            LET o == deallocate(VirtualMachine, h)
            IN  /\ IsErr(o.result, "AllocationStillMapped")
                /\ o.self = VirtualMachine
                /\ o.native = <<>>
                /\ \A ub \in UndefinedBehaviourInputs :
                      get_allocation_slice(o.self, h, ub).ok

\* Two allocations are in the list; the second one is referenced by the
\* second of two recorded mappings, and its deallocate fails so.
C2_Witness ==
    /\ Len(allocation_list) = 2
    /\ Len(mapping_list) = 2
    /\ mapping_list[1].allocation_handle = allocation_list[1].handle
    /\ mapping_list[2].allocation_handle = allocation_list[2].handle
    /\ IsErr(deallocate(VirtualMachine, allocation_list[2].handle).result,
             "AllocationStillMapped")

(***************************************************************************)
(* C3: deallocate(h) of a known allocation that no recorded mapping        *)
(* references succeeds and removes exactly the entry of h (the other       *)
(* entries, their order, the mapping list and the counters are kept);      *)
(* then get_allocation_slice, get_allocation_slice_mut, map and a second   *)
(* deallocate of h fail with InvalidHandle and every other allocation is   *)
(* retrievable as before.  deallocate of a handle that is not in the list  *)
(* (never issued, or already deallocated) fails with InvalidHandle and     *)
(* changes nothing.                                                        *)
(***************************************************************************)
C3_LooksUpFailAfter(self, h) ==
    /\ \A ub \in UndefinedBehaviourInputs :
          /\ IsErr(get_allocation_slice(self, h, ub), "InvalidHandle")
          /\ IsErr(get_allocation_slice_mut(self, h, ub), "InvalidHandle")
    /\ \A a \in AllAddresses, p \in PermissionInputs, ret \in NativeStatusInputs :
          LET m == map(self, h, a, p, ret)
          IN  IsErr(m.result, "InvalidHandle") /\ m.self = self /\ m.native = <<>>
    /\ LET d == deallocate(self, h)
       IN  IsErr(d.result, "InvalidHandle") /\ d.self = self

C3_DeallocateUnmapped ==
    \A h \in AllAllocationHandles :
        IF Known(VirtualMachine, h)
        THEN (~Referenced(VirtualMachine, h)) =>
                LET o == deallocate(VirtualMachine, h)
                IN  /\ o.result = Ok(Unit)
                    /\ o.self.allocation_list
                          = SelectSeq(allocation_list, LAMBDA e : e.handle # h)
                    /\ Len(o.self.allocation_list) = Len(allocation_list) - 1
                    /\ o.self.mapping_list = mapping_list
                    /\ o.self.allocation_counter = allocation_counter
                    /\ o.self.mapping_counter = mapping_counter
                    /\ C3_LooksUpFailAfter(o.self, h)
                    /\ \A h2 \in AllAllocationHandles \ {h} :
                          Known(VirtualMachine, h2) =>
                             \A ub \in UndefinedBehaviourInputs :
                                /\ get_allocation_slice(o.self, h2, ub).ok
                                /\ get_allocation_slice(o.self, h2, ub)
                                      = get_allocation_slice(VirtualMachine, h2, ub)
        ELSE C3_LooksUpFailAfter(VirtualMachine, h)

\* The first allocation has been deallocated (its handle was issued and is
\* gone), the second is still in the list and unreferenced, so that its
\* deallocate succeeds too.
C3_Witness ==
    /\ allocation_counter = 2
    /\ ~Known(VirtualMachine, 1)
    /\ Known(VirtualMachine, 2)
    /\ ~Referenced(VirtualMachine, 2)
    /\ deallocate(VirtualMachine, 2).result.ok

(***************************************************************************)
(* C4: for a known allocation handle h, map(h, addr, perm) with addr not   *)
(* a multiple of the page size 0x10000 fails with MisalignedAddress for    *)
(* each of the 8 permissions, issues no native call and leaves the struct  *)
(* (allocation list, mapping list, counters) unchanged, whatever status    *)
(* the native layer would have returned.                                   *)
(***************************************************************************)
C4_MisalignedMapFails ==
    \A h \in AllAllocationHandles :
        Known(VirtualMachine, h) =>
            \A a \in MisalignedAddresses, p \in AllPermissions,
               ret \in NativeStatusInputs :
                LET o == map(VirtualMachine, h, a, p, ret)
                IN  /\ IsErr(o.result, "MisalignedAddress")
                    /\ o.native = <<>>
                    /\ o.self = VirtualMachine

\* With an allocation already mapped once, a map of it at a misaligned
\* address fails so for a permission with no capability at all.
C4_Witness ==
    /\ mapping_list # <<>>
    /\ \E h \in AllocationHandleInputs, a \in AddressInputs :
          /\ Known(VirtualMachine, h)
          /\ Referenced(VirtualMachine, h)
          /\ a % 65536 # 0
          /\ IsErr(map(VirtualMachine, h, a, MemoryPermission(FALSE, FALSE, FALSE),
                       HV_SUCCESS).result, "MisalignedAddress")

(***************************************************************************)
(* C5: map records a Mapping only after a successful native call.  For a   *)
(* known handle and an aligned address: when hv_vm_map returns a status    *)
(* other than HV_SUCCESS, map returns the conversion of that status, the   *)
(* struct is unchanged (no mapping added, mapping counter not advanced),   *)
(* and a following successful map gets the handle mapping_counter + 1;     *)
(* when it returns HV_SUCCESS, exactly one hv_vm_map call was issued and   *)
(* one mapping with the returned handle was appended.                      *)
(***************************************************************************)
C5_MapRecordsAfterNativeSuccess ==
    \A h \in AllAllocationHandles :
        Known(VirtualMachine, h) =>
            \A a \in AlignedAddresses, p \in PermissionInputs :
                /\ \A ret \in FailureStatus :
                      LET o == map(VirtualMachine, h, a, p, ret)
                          retry == map(o.self, h, a, p, HV_SUCCESS)
                      IN  /\ ~o.result.ok
                          /\ o.result = convert_hv_return(ret)
                          /\ o.result.err.kind
                                \notin {"InvalidHandle", "MisalignedAddress", "panic"}
                          /\ o.self = VirtualMachine
                          /\ Len(o.native) = 1
                          /\ retry.result = Ok(mapping_counter + 1)
                /\ LET o == map(VirtualMachine, h, a, p, HV_SUCCESS)
                   IN  /\ o.result = Ok(mapping_counter + 1)
                       /\ Len(o.native) = 1 /\ o.native[1].fn = "hv_vm_map"
                       /\ Len(o.self.mapping_list) = Len(mapping_list) + 1
                       /\ SubSeq(o.self.mapping_list, 1, Len(mapping_list)) = mapping_list
                       /\ o.self.mapping_list[Len(mapping_list) + 1].mapping_handle
                             = mapping_counter + 1
                       /\ o.self.mapping_counter = mapping_counter + 1

\* One map has succeeded; a second map whose native call fails returns the
\* native error and the map after it gets handle 2.
C5_Witness ==
    /\ mapping_counter = 1
    /\ Len(mapping_list) = 1
    /\ \E h \in AllocationHandleInputs, a \in AddressInputs :
          /\ Known(VirtualMachine, h)
          /\ IsErr(map(VirtualMachine, h, a, READ_WRITE, HV_BAD_ARGUMENT).result,
                   "BadArgument")
          /\ map(map(VirtualMachine, h, a, READ_WRITE, HV_BAD_ARGUMENT).self,
                 h, a, READ_WRITE, HV_SUCCESS).result = Ok(2)

(***************************************************************************)
(* C6: in every reachable state every recorded Mapping has a guest address *)
(* that is a multiple of 0x10000 and a size equal to the full padded size  *)
(* of the allocation it references; and the hv_vm_map call of a map of a   *)
(* known handle at an aligned address is issued over that address with     *)
(* exactly that size.                                                      *)
(***************************************************************************)
C6_SizeOfAllocation(h) ==
    LET i == CHOOSE i \in 1..Len(allocation_list) : allocation_list[i].handle = h
    IN  allocation_list[i].size

C6_MappingCoversAllocation ==
    /\ \A i \in 1..Len(mapping_list) :
          /\ mapping_list[i].address % 65536 = 0
          /\ Known(VirtualMachine, mapping_list[i].allocation_handle)
          /\ mapping_list[i].size = C6_SizeOfAllocation(mapping_list[i].allocation_handle)
          /\ mapping_list[i].size % 65536 = 0
          /\ mapping_list[i].size > 0
    /\ \A h \in AllAllocationHandles :
          Known(VirtualMachine, h) =>
             \A a \in AlignedAddresses, p \in PermissionInputs, ret \in NativeStatusInputs :
                LET o == map(VirtualMachine, h, a, p, ret)
                IN  /\ Len(o.native) = 1
                    /\ o.native[1].fn = "hv_vm_map"
                    /\ o.native[1].ipa = a
                    /\ o.native[1].size = C6_SizeOfAllocation(h)

\* Mappings of a one-page and of a two-page allocation are recorded.
C6_Witness ==
    /\ \E i \in 1..Len(mapping_list) : mapping_list[i].size = 65536
    /\ \E i \in 1..Len(mapping_list) : mapping_list[i].size = 2 * 65536

(***************************************************************************)
(* C7: in every reachable state, unmap(m) of a recorded mapping whose      *)
(* native call succeeds returns Ok and leaves a struct in which            *)
(* get_all_mapping_infos() has no record of m and get_mapping_info(m)      *)
(* fails with InvalidHandle; unmap(m) of a handle that was issued and is   *)
(* no longer recorded fails with InvalidHandle, issues no native call and  *)
(* changes nothing.  A mapping handle that was issued and is no longer     *)
(* recorded is not recorded again by any later step (other maps            *)
(* included), so the second unmap fails whenever it is made.               *)
(***************************************************************************)
C7_SecondUnmapFails(self, m) ==
    \A ret \in NativeStatusInputs :
        LET o == unmap(self, m, ret)
        IN  /\ IsErr(o.result, "InvalidHandle")
            /\ o.native = <<>>
            /\ o.self = self

C7_UnmapThenGone ==
    \A m \in AllMappingHandles :
        IF Recorded(VirtualMachine, m)
        THEN LET o == unmap(VirtualMachine, m, HV_SUCCESS)
                 infos == get_all_mapping_infos(o.self)
             IN  /\ o.result = Ok(Unit)
                 /\ \A i \in 1..Len(infos) : infos[i].mapping_handle # m
                 /\ IsErr(get_mapping_info(o.self, m), "InvalidHandle")
                 /\ C7_SecondUnmapFails(o.self, m)
        ELSE (m \in 1..mapping_counter) =>
                 /\ C7_SecondUnmapFails(VirtualMachine, m)
                 /\ IsErr(get_mapping_info(VirtualMachine, m), "InvalidHandle")

C7_UnmappedStaysUnmapped ==
    \A m \in 1..mapping_counter :
        (~Recorded(VirtualMachine, m)) => (~Recorded(VirtualMachine, m))'

C7_MapUnmapIdempotent ==
    ([]C7_UnmapThenGone) /\ [][C7_UnmappedStaysUnmapped]_vars

\* Mapping 1 has been unmapped and a later map has recorded mapping 2: a
\* second unmap(1) fails with InvalidHandle.
C7_Witness ==
    /\ mapping_counter = 2
    /\ ~Recorded(VirtualMachine, 1)
    /\ Recorded(VirtualMachine, 2)
    /\ IsErr(unmap(VirtualMachine, 1, HV_SUCCESS).result, "InvalidHandle")

(***************************************************************************)
(* C8: unmap(m) of a recorded mapping whose native call returns a status   *)
(* other than HV_SUCCESS returns the conversion of that status after one   *)
(* hv_vm_unmap call over the recorded address and size, and leaves the     *)
(* struct unchanged: the record is still in the list, deallocate of the    *)
(* allocation it references still fails with AllocationStillMapped, and a  *)
(* later unmap(m) whose native call succeeds removes it.                   *)
(***************************************************************************)
C8_RecordOf(m) ==
    mapping_list[CHOOSE i \in 1..Len(mapping_list) : mapping_list[i].mapping_handle = m]

C8_FailedUnmapKeepsRecord ==
    \A m \in AllMappingHandles :
        Recorded(VirtualMachine, m) =>
            \A ret \in FailureStatus :
                LET o == unmap(VirtualMachine, m, ret)
                    record == C8_RecordOf(m)
                    retry == unmap(o.self, m, HV_SUCCESS)
                IN  /\ ~o.result.ok
                    /\ o.result = convert_hv_return(ret)
                    /\ o.native = <<hv_vm_unmap(record.address, record.size)>>
                    /\ o.self = VirtualMachine
                    /\ get_mapping_info(o.self, m) = Ok(record)
                    /\ IsErr(deallocate(o.self, record.allocation_handle).result,
                             "AllocationStillMapped")
                    /\ retry.result = Ok(Unit)
                    /\ ~Recorded(retry.self, m)

\* Two mappings of two allocations are recorded; the unmap of the first
\* fails in the native layer, and the allocation that only this mapping
\* references still cannot be deallocated.
C8_Witness ==
    /\ Len(mapping_list) = 2
    /\ mapping_list[1].allocation_handle # mapping_list[2].allocation_handle
    /\ LET o == unmap(VirtualMachine, mapping_list[1].mapping_handle, HV_BAD_ARGUMENT)
       IN  /\ IsErr(o.result, "BadArgument")
           /\ IsErr(deallocate(o.self, mapping_list[1].allocation_handle).result,
                    "AllocationStillMapped")

(***************************************************************************)
(* C9: reprotect(m, perm2) of a recorded mapping whose native call         *)
(* succeeds returns Ok and changes only the stored permission of the       *)
(* record of m, to perm2: its mapping handle, allocation handle, address   *)
(* and size, every other record, the order and length of the mapping       *)
(* list, the allocation list and both counters are unchanged.              *)
(***************************************************************************)
C9_ReprotectFrame ==
    \A m \in AllMappingHandles :
        Recorded(VirtualMachine, m) =>
            \A perm2 \in AllPermissions :
                LET o == reprotect(VirtualMachine, m, perm2, HV_SUCCESS)
                    after == o.self.mapping_list
                IN  /\ o.result = Ok(Unit)
                    /\ Len(after) = Len(mapping_list)
                    /\ \A i \in 1..Len(mapping_list) :
                          /\ after[i].mapping_handle = mapping_list[i].mapping_handle
                          /\ after[i].allocation_handle = mapping_list[i].allocation_handle
                          /\ after[i].address = mapping_list[i].address
                          /\ after[i].size = mapping_list[i].size
                          /\ after[i].permission
                                = IF mapping_list[i].mapping_handle = m
                                  THEN perm2
                                  ELSE mapping_list[i].permission
                    /\ o.self.allocation_list = allocation_list
                    /\ o.self.allocation_counter = allocation_counter
                    /\ o.self.mapping_counter = mapping_counter

\* Two mappings were recorded with READ_WRITE and the second one has been
\* reprotected to EXECUTE, the first one keeping READ_WRITE.
C9_Witness ==
    /\ Len(mapping_list) = 2
    /\ mapping_list[1].permission = READ_WRITE
    /\ mapping_list[2].permission = EXECUTE

(***************************************************************************)
(* C10: reprotect(m, perm) of a mapping handle that is not in the mapping  *)
(* list (never issued, or issued and unmapped since) fails with            *)
(* InvalidHandle, issues no native call and leaves the struct unchanged,   *)
(* for every permission and whatever the native layer would return.        *)
(***************************************************************************)
C10_ReprotectUnknownFails ==
    \A m \in AllMappingHandles :
        (~Recorded(VirtualMachine, m)) =>
            \A perm \in AllPermissions, ret \in NativeStatusInputs :
                LET o == reprotect(VirtualMachine, m, perm, ret)
                IN  /\ IsErr(o.result, "InvalidHandle")
                    /\ o.native = <<>>
                    /\ o.self = VirtualMachine

\* Mapping 1 has been unmapped and mapping 2, of allocation 1, is recorded:
\* reprotect of handle 1 (unmapped) and of handle 3 (never issued) fail.
C10_Witness ==
    /\ mapping_counter = 2
    /\ ~Recorded(VirtualMachine, 1)
    /\ Recorded(VirtualMachine, 2)
    /\ Referenced(VirtualMachine, 1)
    /\ IsErr(reprotect(VirtualMachine, 1, EXECUTE, HV_SUCCESS).result, "InvalidHandle")
    /\ IsErr(reprotect(VirtualMachine, 3, EXECUTE, HV_SUCCESS).result, "InvalidHandle")

(***************************************************************************)
(* C11: reprotect(m, perm) of a recorded mapping whose native call returns *)
(* a status other than HV_SUCCESS returns the conversion of that status    *)
(* after one hv_vm_protect call, and leaves the struct unchanged: the      *)
(* stored permission of m is the previous one and get_mapping_info(m)      *)
(* returns the same record as before the call.                             *)
(***************************************************************************)
C11_FailedReprotectKeepsPermission ==
    \A m \in AllMappingHandles :
        Recorded(VirtualMachine, m) =>
            \A perm \in AllPermissions, ret \in FailureStatus :
                LET o == reprotect(VirtualMachine, m, perm, ret)
                    record == C8_RecordOf(m)
                IN  /\ ~o.result.ok
                    /\ o.result = convert_hv_return(ret)
                    /\ o.native = <<hv_vm_protect(record.address, record.size,
                                                  hv_memory_flags_from(perm))>>
                    /\ get_mapping_info(o.self, m) = Ok(record)
                    /\ get_mapping_info(o.self, m) = get_mapping_info(VirtualMachine, m)
                    /\ o.self = VirtualMachine

\* A mapping has been reprotected to EXECUTE; a reprotect back to READ_WRITE
\* that fails in the native layer leaves EXECUTE stored.
C11_Witness ==
    /\ Len(mapping_list) >= 1
    /\ mapping_list[1].permission = EXECUTE
    /\ LET o == reprotect(VirtualMachine, mapping_list[1].mapping_handle,
                          READ_WRITE, HV_BAD_ARGUMENT)
       IN  /\ IsErr(o.result, "BadArgument")
           /\ o.self.mapping_list[1].permission = EXECUTE

(***************************************************************************)
(* C12: the allocation handles one VirtualMachine returns are strictly     *)
(* increasing.  In every reachable state allocate and allocate_from return *)
(* allocation_counter + 1 and leave the counter at that value, every       *)
(* handle in the allocation list is at most allocation_counter, and the    *)
(* handles in the list are strictly increasing along it (so no two entries *)
(* have the same handle); no step lowers allocation_counter, so a handle   *)
(* returned is larger than every handle returned before, the handles of    *)
(* deallocated allocations included.                                       *)
(***************************************************************************)
C12_AllocateReturnsNext ==
    /\ \A size \in SizeInputs \cup {1, PAGE_SIZE} :
          LET o == allocate(VirtualMachine, size, BufferPointer)
          IN  /\ o.result = Ok(allocation_counter + 1)
              /\ o.self.allocation_counter = allocation_counter + 1
              /\ o.self.allocation_list[Len(allocation_list) + 1].handle
                    = allocation_counter + 1
    /\ \A source \in SourceInputs, ub \in UndefinedBehaviourInputs :
          LET o == allocate_from(VirtualMachine, source, BufferPointer, ub)
          IN  /\ o.result = Ok(allocation_counter + 1)
              /\ o.self.allocation_counter = allocation_counter + 1
    /\ \A i \in 1..Len(allocation_list) :
          /\ allocation_list[i].handle >= 1
          /\ allocation_list[i].handle <= allocation_counter
          /\ \A j \in 1..Len(allocation_list) :
                i < j => allocation_list[i].handle < allocation_list[j].handle

C12_CounterNeverLowered == allocation_counter' >= allocation_counter

C12_AllocationHandlesIncrease ==
    ([]C12_AllocateReturnsNext) /\ [][C12_CounterNeverLowered]_vars

\* Handle 1 was returned and deallocated, handle 2 is in the list: the
\* next allocate returns 3, not the free handle 1.
C12_Witness ==
    /\ allocation_counter = 2
    /\ ~Known(VirtualMachine, 1)
    /\ Known(VirtualMachine, 2)
    /\ Len(allocation_list) = 1
    /\ allocate(VirtualMachine, 1, BufferPointer).result = Ok(3)

(***************************************************************************)
(* C14: mapping handles are unique.  In every reachable state a successful *)
(* map returns mapping_counter + 1 and leaves the counter at that value,   *)
(* every recorded handle is at most mapping_counter and the recorded       *)
(* handles are strictly increasing along the list (so no two records have  *)
(* the same handle); no step lowers mapping_counter, so a handle returned  *)
(* by map is never returned again, also after its mapping was unmapped.    *)
(***************************************************************************)
C14_MapReturnsNext ==
    /\ \A h \in AllAllocationHandles :
          Known(VirtualMachine, h) =>
             \A a \in AlignedAddresses :
                LET o == map(VirtualMachine, h, a, READ_WRITE, HV_SUCCESS)
                IN  /\ o.result = Ok(mapping_counter + 1)
                    /\ o.self.mapping_counter = mapping_counter + 1
                    /\ o.self.mapping_list[Len(mapping_list) + 1].mapping_handle
                          = mapping_counter + 1
    /\ \A i \in 1..Len(mapping_list) :
          /\ mapping_list[i].mapping_handle >= 1
          /\ mapping_list[i].mapping_handle <= mapping_counter
          /\ \A j \in 1..Len(mapping_list) :
                i < j => mapping_list[i].mapping_handle < mapping_list[j].mapping_handle

C14_CounterNeverLowered == mapping_counter' >= mapping_counter

C14_MappingHandlesUnique ==
    ([]C14_MapReturnsNext) /\ [][C14_CounterNeverLowered]_vars

\* Mapping 1 has been unmapped, mapping 2 is recorded: the next map returns
\* 3, not the free handle 1.
C14_Witness ==
    /\ mapping_counter = 2
    /\ ~Recorded(VirtualMachine, 1)
    /\ Recorded(VirtualMachine, 2)
    /\ \E h \in AllocationHandleInputs :
          /\ Known(VirtualMachine, h)
          /\ map(VirtualMachine, h, 0, READ_WRITE, HV_SUCCESS).result = Ok(3)

(***************************************************************************)
(* C15: for every size s > 0, allocate(s) returns a handle whose backing   *)
(* region, as get_allocation_slice gives it, is a buffer of                *)
(* ceil(s / PAGE_SIZE) * PAGE_SIZE bytes, every one of them zero.  The     *)
(* region is looked at for each pointer the allocator can return, and for  *)
(* every allocation the list holds.                                        *)
(***************************************************************************)
C15_SizeInputs ==
    {1, PAGE_SIZE - 1, PAGE_SIZE, PAGE_SIZE + 1, 2 * PAGE_SIZE, 2 * PAGE_SIZE + 1}

\* ceil(s / PAGE_SIZE) * PAGE_SIZE: the least multiple of the page size that
\* is not below s.
C15_Ceil(s) ==
    CHOOSE n \in {k * PAGE_SIZE : k \in 1..3} : n >= s /\ n - PAGE_SIZE < s

\* The slice is a buffer of len zero bytes.
C15_ZeroRegion(slice, len) ==
    /\ slice.ok
    /\ slice.value.ptr = BufferPointer
    /\ slice.value.len = len
    /\ \A i \in 1..Len(slice.value.data) : slice.value.data[i] = 0

C15_AllocateZeroFilled ==
    /\ \A s \in C15_SizeInputs, ptr \in PointerInputs, ub \in UndefinedBehaviourInputs :
          LET o == allocate(VirtualMachine, s, ptr)
          IN  /\ o.result.ok
              /\ C15_ZeroRegion(get_allocation_slice(o.self, o.result.value, ub),
                                C15_Ceil(s))
    /\ \A i \in 1..Len(allocation_list) :
          allocation_list[i].base_address = BufferPointer

(***************************************************************************)
(* C16: allocate fails only on memory exhaustion and then reports an       *)
(* error instead of recording an allocation: for every size and every      *)
(* pointer the allocator can return, allocate either returns a handle to   *)
(* a recorded allocation with a valid buffer, or returns an error and      *)
(* leaves the allocation list unchanged; it returns an error exactly when  *)
(* the allocator returned no buffer.  No allocation in the list has a null *)
(* buffer.                                                                 *)
(***************************************************************************)
C16_AllocateReportsExhaustion ==
    /\ \A size \in C15_SizeInputs, ptr \in PointerInputs, ub \in UndefinedBehaviourInputs :
          LET o == allocate(VirtualMachine, size, ptr)
              recorded == get_allocation_slice(o.self, o.result.value, ub)
          IN  /\ o.result.ok <=> ptr # NullPointer
              /\ \/ /\ o.result.ok
                    /\ recorded.ok
                    /\ recorded.value.ptr # NullPointer
                 \/ /\ ~o.result.ok
                    /\ o.self.allocation_list = allocation_list
    /\ \A i \in 1..Len(allocation_list) :
          allocation_list[i].base_address # NullPointer

(***************************************************************************)
(* C13, as the specification states it: an AllocationHandle value is never *)
(* reused within a process.  No value returned by the living instance has  *)
(* been returned by an instance dropped before, and the handle the next    *)
(* allocate or allocate_from returns has not been returned in the process. *)
(***************************************************************************)
C13_NeverReusedInProcess ==
    /\ returned_here \cap returned_before = {}
    /\ vm_state = "Created" =>
          /\ \A size \in SizeInputs :
                allocate(VirtualMachine, size, BufferPointer).result.value
                    \notin (returned_here \cup returned_before)
          /\ \A source \in SourceInputs, ub \in UndefinedBehaviourInputs :
                allocate_from(VirtualMachine, source, BufferPointer, ub).result.value
                    \notin (returned_here \cup returned_before)

(***************************************************************************)
(* C13, amended: an AllocationHandle value is never reused within one      *)
(* VirtualMachine instance.  The values the living instance has returned   *)
(* are 1..allocation_counter and the next allocate or allocate_from        *)
(* returns a value that is not among them.  Every instance starts its      *)
(* counter at 0: the first allocate of an instance created now returns 1,  *)
(* whatever the instances before it have returned.                         *)
(***************************************************************************)
C13_NeverReusedInInstance ==
    /\ vm_state = "Created" =>
          /\ returned_here = 1..allocation_counter
          /\ \A size \in SizeInputs :
                allocate(VirtualMachine, size, BufferPointer).result.value
                    \notin returned_here
          /\ \A source \in SourceInputs, ub \in UndefinedBehaviourInputs :
                allocate_from(VirtualMachine, source, BufferPointer, ub).result.value
                    \notin returned_here
    /\ vm_state # "Created" => returned_here = {}
    /\ \A config \in ConfigInputs :
          LET created == VirtualMachine_new(config, HV_SUCCESS).result
          IN  /\ created.ok
              /\ \A size \in SizeInputs :
                    allocate(created.value, size, BufferPointer).result = Ok(1)

\* The second instance of the process has returned the handle 1, which the
\* first instance had returned too.
C13_Witness ==
    /\ vm_state = "Created"
    /\ returned_before = {1, 2}
    /\ returned_here = {1}
    /\ Known(VirtualMachine, 1)

(***************************************************************************)
(* C17: the drop of a VirtualMachine issues one hv_vm_unmap for each       *)
(* mapping recorded when it starts, in the order of the list and over the  *)
(* recorded address and size, and issues hv_vm_destroy only after all of   *)
(* them succeeded: hv_vm_destroy is the call after the last unmap, no      *)
(* mapping is recorded when it is issued, and when every unmap succeeds it *)
(* is issued.  In a state left by a drop that returned, no mapping is     *)
(* recorded and the calls logged are those unmaps and then hv_vm_destroy,  *)
(* unless a later VirtualMachine::new failed and logged its hv_vm_create.  *)
(***************************************************************************)
C17_OrderOf(self, o, rets) ==
    LET n == Len(self.mapping_list)
    IN  /\ Len(o.native) <= n + 1
        /\ \A i \in 1..Len(o.native) :
              IF i <= n
              THEN o.native[i] = hv_vm_unmap(self.mapping_list[i].address,
                                             self.mapping_list[i].size)
              ELSE /\ o.native[i] = hv_vm_destroy
                   /\ \A j \in 1..n : rets[j] = HV_SUCCESS
                   /\ o.self.mapping_list = <<>>
        /\ (\A j \in 1..n : rets[j] = HV_SUCCESS) => Len(o.native) = n + 1

C17_TeardownOrder ==
    /\ vm_state = "Created" =>
          \A rets \in DropStatusInputs(Len(mapping_list)), ret \in NativeStatusInputs :
              C17_OrderOf(VirtualMachine,
                          VirtualMachine_drop(VirtualMachine, rets, ret), rets)
    /\ vm_state = "Destroyed" =>
          /\ mapping_list = <<>>
          /\ native_log # <<>>
          /\ \/ \E config \in ConfigInputs, ret \in NativeStatusInputs \ {HV_SUCCESS} :
                    native_log = VirtualMachine_new(config, ret).native
             \/ \A i \in 1..Len(native_log) :
                    IF i < Len(native_log)
                    THEN native_log[i].fn = "hv_vm_unmap"
                    ELSE native_log[i] = hv_vm_destroy

\* An instance with two mappings has been dropped: two unmaps of different
\* sizes, then hv_vm_destroy.
C17_Witness ==
    /\ vm_state = "Destroyed"
    /\ Len(native_log) = 3
    /\ native_log[1].fn = "hv_vm_unmap"
    /\ native_log[2].fn = "hv_vm_unmap"
    /\ native_log[1].size # native_log[2].size
    /\ native_log[3] = hv_vm_destroy

(***************************************************************************)
(* C18: a failure in the drop of a VirtualMachine is fatal and aborts the  *)
(* process.  The drop returns exactly when every native call succeeded.    *)
(* When the unmap of the f-th mapping is the first to fail, the drop stops *)
(* with "Cannot unmap memory on VM drop!" after f calls, none of them      *)
(* hv_vm_destroy, and the mappings from the f-th on stay recorded; when    *)
(* the unmaps succeed and hv_vm_destroy fails it stops with "Cannot        *)
(* destroy VM on drop!".  The failure ends the process: the last call of   *)
(* an aborted process is the one that failed, and there is no state in     *)
(* which a drop has failed and the process goes on.                        *)
(***************************************************************************)
C18_FirstFailure(rets) ==
    IF \A j \in DOMAIN rets : rets[j] = HV_SUCCESS THEN 0
    ELSE CHOOSE f \in DOMAIN rets :
            /\ rets[f] # HV_SUCCESS
            /\ \A j \in 1..(f - 1) : rets[j] = HV_SUCCESS

C18_FatalOf(self, o, rets, ret) ==
    LET n == Len(self.mapping_list)
        f == C18_FirstFailure(rets)
    IN  /\ o.result.ok <=> (f = 0 /\ ret = HV_SUCCESS)
        /\ f # 0 =>
              /\ o.result = Panic("Cannot unmap memory on VM drop!")
              /\ Len(o.native) = f
              /\ \A i \in 1..f : o.native[i].fn = "hv_vm_unmap"
              /\ o.self.mapping_list = SubSeq(self.mapping_list, f, n)
        /\ (f = 0 /\ ret # HV_SUCCESS) =>
              /\ o.result = Panic("Cannot destroy VM on drop!")
              /\ o.native[n + 1] = hv_vm_destroy

\* What the drop does in each state of a living instance, and the state an
\* aborted process is left in.
C18_TeardownStops ==
    /\ vm_state = "Created" =>
          \A rets \in DropStatusInputs(Len(mapping_list)), ret \in NativeStatusInputs :
              C18_FatalOf(VirtualMachine,
                          VirtualMachine_drop(VirtualMachine, rets, ret), rets, ret)
    /\ vm_state = "Aborted" =>
          /\ native_log # <<>>
          /\ LET last_call == native_log[Len(native_log)]
             IN  \/ /\ last_call = hv_vm_destroy
                    /\ mapping_list = <<>>
                 \/ /\ mapping_list # <<>>
                    /\ last_call = hv_vm_unmap(mapping_list[1].address,
                                               mapping_list[1].size)

C18_TeardownFailureFatal ==
    /\ C18_TeardownStops
    /\ vm_state # "Panicked"

(***************************************************************************)
(* C19: the drop of a VirtualCpu, run before or not, first issues          *)
(* hv_vcpus_exit for its handle and then hv_vcpu_destroy for it.  When the *)
(* exit request fails the drop panics with "Cannot exit vCPU on drop!"     *)
(* and hv_vcpu_destroy is not issued; when hv_vcpu_destroy fails it panics *)
(* with "Cannot destroy vCPU on drop!"; it returns exactly when both calls *)
(* succeeded.  In a state left by a drop the calls logged are those of the *)
(* drop, unless a later create_vcpu failed and logged its hv_vcpu_create.  *)
(***************************************************************************)
C19_DropOf(self, o, exit_ret, destroy_ret) ==
    /\ o.native # <<>>
    /\ o.native[1] = hv_vcpus_exit(<<self.handle>>, 1)
    /\ exit_ret # HV_SUCCESS =>
          /\ o.native = <<hv_vcpus_exit(<<self.handle>>, 1)>>
          /\ o.result = Panic("Cannot exit vCPU on drop!")
    /\ exit_ret = HV_SUCCESS =>
          /\ o.native = <<hv_vcpus_exit(<<self.handle>>, 1), hv_vcpu_destroy(self.handle)>>
          /\ destroy_ret # HV_SUCCESS => o.result = Panic("Cannot destroy vCPU on drop!")
    /\ o.result.ok <=> (exit_ret = HV_SUCCESS /\ destroy_ret = HV_SUCCESS)

C19_VcpuTeardownOrder ==
    /\ vcpu_state = "Created" =>
          \A exit_ret \in AllNativeStatus, destroy_ret \in AllNativeStatus :
              C19_DropOf(vcpu, VirtualCpu_drop(vcpu, exit_ret, destroy_ret),
                         exit_ret, destroy_ret)
    /\ vcpu_state = "Destroyed" =>
          \/ \E config \in ConfigInputs, ret \in NativeStatusInputs \ {HV_SUCCESS} :
                vcpu_log = create_vcpu(config, vcpu, ret).native
          \/ vcpu_log = <<hv_vcpus_exit(<<vcpu.handle>>, 1), hv_vcpu_destroy(vcpu.handle)>>
    /\ vcpu_state = "Panicked" =>
          \/ \E config \in ConfigInputs, ret \in NativeStatusInputs \ {HV_SUCCESS} :
                vcpu_log = create_vcpu(config, vcpu, ret).native
          \/ vcpu_log = <<hv_vcpus_exit(<<vcpu.handle>>, 1)>>
          \/ vcpu_log = <<hv_vcpus_exit(<<vcpu.handle>>, 1), hv_vcpu_destroy(vcpu.handle)>>

\* A vCPU that returned from run with an exception exit has been dropped:
\* the exit request for its handle, then the destroy call.
C19_Witness ==
    /\ vcpu_state = "Destroyed"
    /\ vcpu_result.ok
    /\ vcpu_result.value.tag = "Exception"
    /\ vcpu.handle = 1
    /\ vcpu_log = <<hv_vcpus_exit(<<1>>, 1), hv_vcpu_destroy(1)>>

(***************************************************************************)
(* C20: run() returns an error exactly when hv_vcpu_run returns a status   *)
(* other than HV_SUCCESS, and the error is the conversion of that status   *)
(* whatever the exit record holds.  Otherwise it returns the decoding of   *)
(* the reason of the exit record: CANCELED gives Cancelled, EXCEPTION      *)
(* gives Exception with the exception detail of the record,                *)
(* VTIMER_ACTIVATED gives VTimerActivated, UNKNOWN and every other code    *)
(* give Unknown.                                                           *)
(***************************************************************************)
C20_Reasons == HV_EXIT_REASON_CANCELED..(UnlistedReason + 1)

C20_Decoded(record) ==
    IF record.reason = HV_EXIT_REASON_CANCELED THEN [tag |-> "Cancelled"]
    ELSE IF record.reason = HV_EXIT_REASON_EXCEPTION
    THEN [tag |-> "Exception", exception |-> record.exception]
    ELSE IF record.reason = HV_EXIT_REASON_VTIMER_ACTIVATED
    THEN [tag |-> "VTimerActivated"]
    ELSE [tag |-> "Unknown"]

C20_RunDecodesExit ==
    /\ vcpu_state = "Created" =>
          \A reason \in C20_Reasons, exception \in ExceptionInputs, ret \in AllNativeStatus :
              LET record == [reason |-> reason, exception |-> exception]
                  o == run(vcpu, record, ret)
              IN  /\ o.result.ok <=> ret = HV_SUCCESS
                  /\ ret # HV_SUCCESS => o.result = convert_hv_return(ret)
                  /\ ret = HV_SUCCESS => o.result = Ok(C20_Decoded(record))
                  /\ o.native = <<hv_vcpu_run(vcpu.handle)>>
                  /\ o.self = vcpu
    /\ (vcpu_state = "Created" /\ vcpu_log = <<hv_vcpu_run(vcpu.handle)>>) =>
          \/ ~vcpu_result.ok /\ vcpu_result # NoResult
          \/ vcpu_result = Ok(C20_Decoded(vcpu_exit))

\* A run has returned with a reason code the framework does not define:
\* the result is Ok(Unknown).
C20_Witness ==
    /\ vcpu_state = "Created"
    /\ vcpu_log = <<hv_vcpu_run(vcpu.handle)>>
    /\ vcpu_exit.reason = UnlistedReason
    /\ vcpu_result.ok
    /\ vcpu_result.value = [tag |-> "Unknown"]

(***************************************************************************)
(* C23: the status conversion maps each native code other than HV_SUCCESS  *)
(* to its member of the taxonomy and every code c that is not listed to    *)
(* Unknown(c); it never gives InvalidHandle, AllocationStillMapped or      *)
(* MisalignedAddress.  In every reachable state a tracker operation that   *)
(* returns one of these three has issued no native call: they come from    *)
(* the tracker's own tests.                                                *)
(***************************************************************************)
C23_Statuses ==
    AllNativeStatus \cup
    {HV_ERROR - 1, HV_DENIED + 1, HV_UNSUPPORTED - 1, HV_UNSUPPORTED + 1,
     HV_SUCCESS - 1, HV_SUCCESS + 2}

C23_Table(value) ==
    IF value = HV_ERROR THEN [kind |-> "Error", code |-> 0]
    ELSE IF value = HV_BUSY THEN [kind |-> "Busy", code |-> 0]
    ELSE IF value = HV_BAD_ARGUMENT THEN [kind |-> "BadArgument", code |-> 0]
    ELSE IF value = HV_ILLEGAL_GUEST_STATE THEN [kind |-> "IllegalGuestState", code |-> 0]
    ELSE IF value = HV_NO_RESOURCES THEN [kind |-> "NoResources", code |-> 0]
    ELSE IF value = HV_NO_DEVICE THEN [kind |-> "NoDevice", code |-> 0]
    ELSE IF value = HV_DENIED THEN [kind |-> "Denied", code |-> 0]
    ELSE IF value = HV_UNSUPPORTED THEN [kind |-> "Unsupported", code |-> 0]
    ELSE [kind |-> "Unknown", code |-> value]

C23_LocalKinds == {"InvalidHandle", "AllocationStillMapped", "MisalignedAddress"}

\* The outcome is not one of the three local errors, or no native call was made.
C23_LocalOnly(o) ==
    (~o.result.ok /\ o.result.err.kind \in C23_LocalKinds) => o.native = <<>>

C23_ConversionTable ==
    /\ \A value \in C23_Statuses \ {HV_SUCCESS} :
          /\ HypervisorError_from(value) = C23_Table(value)
          /\ convert_hv_return(value) = Err(C23_Table(value))
          /\ convert_hv_return(value).err.kind \notin C23_LocalKinds
    /\ \A h \in AllAllocationHandles :
          /\ C23_LocalOnly(deallocate(VirtualMachine, h))
          /\ \A a \in {0, 1}, ret \in AllNativeStatus :
                LET o == map(VirtualMachine, h, a, READ_WRITE, ret)
                IN  /\ C23_LocalOnly(o)
                    /\ o.native # <<>> =>
                          IF ret = HV_SUCCESS THEN o.result.ok
                          ELSE o.result = convert_hv_return(ret)
    /\ \A m \in AllMappingHandles, ret \in AllNativeStatus :
          /\ C23_LocalOnly(unmap(VirtualMachine, m, ret))
          /\ C23_LocalOnly(reprotect(VirtualMachine, m, EXECUTE, ret))

\* A mapped allocation: its unmap with a busy native layer fails with Busy,
\* with a status that is not listed with Unknown of that status, and its
\* deallocate fails with AllocationStillMapped without a native call.
C23_Witness ==
    /\ Len(mapping_list) >= 1
    /\ LET m == mapping_list[1].mapping_handle
           h == mapping_list[1].allocation_handle
       IN  /\ unmap(VirtualMachine, m, HV_BUSY).result = Err(HypervisorError("Busy"))
           /\ unmap(VirtualMachine, m, UnlistedStatus).result
                 = Err(HypervisorErrorUnknown(UnlistedStatus))
           /\ unmap(VirtualMachine, m, HV_BUSY).native # <<>>
           /\ IsErr(deallocate(VirtualMachine, h).result, "AllocationStillMapped")
           /\ deallocate(VirtualMachine, h).native = <<>>

(***************************************************************************)
(* C24: get_all_mapping_infos() returns the mapping records of the state,  *)
(* in the order they were inserted (ascending handles), and                *)
(* get_mapping_info(m) returns the record of m when m is recorded and      *)
(* fails with InvalidHandle when it is not.  Both take the struct by       *)
(* shared reference and return a value: the struct is the same after them. *)
(***************************************************************************)
C24_QueriesReadOnly ==
    /\ get_all_mapping_infos(VirtualMachine) = mapping_list
    /\ \A i \in 1..Len(mapping_list), j \in 1..Len(mapping_list) :
          i < j => get_all_mapping_infos(VirtualMachine)[i].mapping_handle
                      < get_all_mapping_infos(VirtualMachine)[j].mapping_handle
    /\ \A m \in AllMappingHandles :
          LET r == get_mapping_info(VirtualMachine, m)
          IN  IF Recorded(VirtualMachine, m)
              THEN /\ r.ok
                   /\ r.value.mapping_handle = m
                   /\ \E i \in 1..Len(mapping_list) : mapping_list[i] = r.value
              ELSE r = Err(HypervisorError("InvalidHandle"))

\* The list holds two records: the second is read by its handle, and a
\* handle that no record has fails.
C24_Witness ==
    /\ Len(mapping_list) = 2
    /\ get_mapping_info(VirtualMachine, mapping_list[2].mapping_handle)
          = Ok(mapping_list[2])
    /\ mapping_list[2] # mapping_list[1]
    /\ IsErr(get_mapping_info(VirtualMachine, 0), "InvalidHandle")
    /\ Len(get_all_mapping_infos(VirtualMachine)) = 2

(***************************************************************************)
(* C29: HV_SUCCESS never reaches the conversion to HypervisorError:        *)
(* convert_hv_return gives Ok(()) for HV_SUCCESS and an error other than   *)
(* the panic of the conversion for every other status, and in every        *)
(* reachable state no operation ends in that panic, whatever status its    *)
(* native call returns.                                                    *)
(***************************************************************************)
C29_NoPanic(result) == result.ok \/ result.err.kind # "panic"

C29_SuccessNeverConverted ==
    /\ convert_hv_return(HV_SUCCESS) = Ok(Unit)
    /\ \A value \in C23_Statuses :
          /\ C29_NoPanic(convert_hv_return(value))
          /\ (HypervisorError_from(value).kind = "panic") <=> (value = HV_SUCCESS)
          /\ convert_hv_return(value).ok <=> (value = HV_SUCCESS)
    /\ \A ret \in AllNativeStatus :
          /\ \A h \in AllAllocationHandles :
                C29_NoPanic(map(VirtualMachine, h, 0, READ_WRITE, ret).result)
          /\ \A m \in AllMappingHandles :
                /\ C29_NoPanic(unmap(VirtualMachine, m, ret).result)
                /\ C29_NoPanic(reprotect(VirtualMachine, m, EXECUTE, ret).result)
          /\ \A config \in ConfigInputs :
                C29_NoPanic(VirtualMachine_new(config, ret).result)

\* A mapping is recorded, so a native call has returned HV_SUCCESS; the
\* next calls that succeed natively return Ok.
C29_Witness ==
    /\ Len(mapping_list) >= 1
    /\ unmap(VirtualMachine, mapping_list[1].mapping_handle, HV_SUCCESS).result = Ok(Unit)
    /\ reprotect(VirtualMachine, mapping_list[1].mapping_handle, READ, HV_SUCCESS).result
          = Ok(Unit)

(***************************************************************************)
(* C30: map looks the allocation handle up before it tests the alignment   *)
(* of the address: with an unknown handle it fails with InvalidHandle for  *)
(* every address, misaligned ones included; with a known handle and a      *)
(* misaligned address it fails with MisalignedAddress.  In both cases no   *)
(* native call is issued and the struct is unchanged.                      *)
(***************************************************************************)
C30_HandleBeforeAlignment ==
    \A h \in AllAllocationHandles, a \in AllAddresses, perm \in AllPermissions,
       ret \in NativeStatusInputs :
        LET o == map(VirtualMachine, h, a, perm, ret)
        IN  /\ ~Known(VirtualMachine, h) =>
                  /\ o.result = Err(HypervisorError("InvalidHandle"))
                  /\ o.native = <<>>
                  /\ o.self = VirtualMachine
            /\ (Known(VirtualMachine, h) /\ a % PAGE_SIZE # 0) =>
                  /\ o.result = Err(HypervisorError("MisalignedAddress"))
                  /\ o.native = <<>>
                  /\ o.self = VirtualMachine

\* A handle that was deallocated and a handle that is known: map of the
\* first at a misaligned address fails with InvalidHandle, map of the
\* second at the same address with MisalignedAddress.
C30_Witness ==
    /\ ~Known(VirtualMachine, 1)
    /\ Known(VirtualMachine, 2)
    /\ allocation_counter = 2
    /\ IsErr(map(VirtualMachine, 1, 1, READ_WRITE, HV_SUCCESS).result, "InvalidHandle")
    /\ IsErr(map(VirtualMachine, 2, 1, READ_WRITE, HV_SUCCESS).result, "MisalignedAddress")

(***************************************************************************)
(* C25: on a fresh VirtualMachine, with every native call succeeding, the  *)
(* calls allocate(1), map(handle, 0, READ_WRITE), reprotect(mapping,       *)
(* EXECUTE), unmap(mapping), deallocate(handle) all succeed.  The buffer   *)
(* of the allocation is one page long, the mapping is one page long,       *)
(* get_mapping_info after the reprotect shows execute without read and     *)
(* write, the mapping list is empty after the unmap and the allocation     *)
(* list is empty after the deallocate.  The allocator serves the page.     *)
(***************************************************************************)
C25_Scenario(fresh, ptr) ==
    LET allocated == allocate(fresh, 1, ptr)
        handle == allocated.result.value
        region(ub) == get_allocation_slice(allocated.self, handle, ub)
        mapped == map(allocated.self, handle, 0, READ_WRITE, HV_SUCCESS)
        mapping == mapped.result.value
        reprotected == reprotect(mapped.self, mapping, EXECUTE, HV_SUCCESS)
        info == get_mapping_info(reprotected.self, mapping)
        unmapped == unmap(reprotected.self, mapping, HV_SUCCESS)
        deallocated == deallocate(unmapped.self, handle)
    IN  /\ allocated.result.ok
        /\ \A ub \in UndefinedBehaviourInputs :
              region(ub).ok /\ region(ub).value.len = PAGE_SIZE
        /\ mapped.result.ok
        /\ get_mapping_info(mapped.self, mapping).value.size = PAGE_SIZE
        /\ mapped.native = <<hv_vm_map(ptr, 0, PAGE_SIZE,
                                       HV_MEMORY_READ + HV_MEMORY_WRITE)>>
        /\ reprotected.result.ok
        /\ info.ok
        /\ info.value.permission = [read |-> FALSE, write |-> FALSE, execute |-> TRUE]
        /\ info.value.size = PAGE_SIZE
        /\ unmapped.result.ok
        /\ get_all_mapping_infos(unmapped.self) = <<>>
        /\ deallocated.result.ok
        /\ deallocated.self.allocation_list = <<>>
        /\ deallocated.self.mapping_list = <<>>

\* The struct at the end of the scenario.
C25_End(fresh, ptr) ==
    LET allocated == allocate(fresh, 1, ptr)
        mapped == map(allocated.self, allocated.result.value, 0, READ_WRITE, HV_SUCCESS)
        reprotected == reprotect(mapped.self, mapped.result.value, EXECUTE, HV_SUCCESS)
        unmapped == unmap(reprotected.self, mapped.result.value, HV_SUCCESS)
    IN  deallocate(unmapped.self, allocated.result.value).self

C25_IsFresh ==
    /\ allocation_counter = 0
    /\ mapping_counter = 0
    /\ allocation_list = <<>>
    /\ mapping_list = <<>>

C25_FreshScenario ==
    /\ \A config \in ConfigInputs :
          LET created == VirtualMachine_new(config, HV_SUCCESS).result
          IN  created.ok /\ C25_Scenario(created.value, BufferPointer)
    /\ C25_IsFresh => C25_Scenario(VirtualMachine, BufferPointer)

\* The state at the end of such a sequence: one allocation handle and one
\* mapping handle issued, both lists empty again; it is the struct the
\* scenario leaves.
C25_Witness ==
    /\ allocation_counter = 1
    /\ mapping_counter = 1
    /\ allocation_list = <<>>
    /\ mapping_list = <<>>
    /\ VirtualMachine
          = C25_End(VirtualMachine_new("None", HV_SUCCESS).result.value, BufferPointer)

(***************************************************************************)
(* C26: allocate_from(bytes) returns the handle of a new allocation whose  *)
(* buffer has ceil(len(bytes) / PAGE_SIZE) * PAGE_SIZE bytes, the first    *)
(* len(bytes) of them equal to bytes and the others zero, and it never     *)
(* fails with NoResources.  The buffer is looked at for each pointer the   *)
(* allocator can return.                                                   *)
(***************************************************************************)
C26_SourceInputs == {<<7>>, <<1, 2, 3>>, <<0, 255>>}

\* The i-th byte of the buffer a slice views: its data, then zeros.
C26_Byte(slice, i) ==
    IF i <= Len(slice.data) THEN slice.data[i] ELSE 0

C26_AllocateFromCopies ==
    \A source \in C26_SourceInputs, ptr \in PointerInputs, ub \in UndefinedBehaviourInputs :
        LET o == allocate_from(VirtualMachine, source, ptr, ub)
            handle == allocation_counter + 1
            region == get_allocation_slice(o.self, handle, ub)
        IN  /\ o.result = Ok(handle)
            /\ ~IsErr(o.result, "NoResources")
            /\ Len(o.self.allocation_list) = Len(allocation_list) + 1
            /\ region.ok
            /\ region.value.ptr = BufferPointer
            /\ region.value.len = C15_Ceil(Len(source))
            /\ \A i \in 1..Len(source) : C26_Byte(region.value, i) = source[i]
            /\ \A i \in {Len(source) + 1, PAGE_SIZE} : C26_Byte(region.value, i) = 0

(***************************************************************************)
(* C28: the life of a VirtualMachine is Uninitialized -> Created ->        *)
(* Destroyed, with no way back.  new() returns an instance exactly when    *)
(* hv_vm_create succeeds, with both counters at 0 and both lists empty;    *)
(* when hv_vm_create fails it returns the converted error, its only native *)
(* call is hv_vm_create, no instance exists and no hv_vm_destroy is issued *)
(* for the attempt.  An instance leaves Created only by its drop, which    *)
(* returns (Destroyed) or panics (Panicked when the panic unwinds, Aborted *)
(* when it ends the process); a dropped instance is not used again: the    *)
(* state becomes Created again only through a new() that makes a fresh     *)
(* struct, hv_vm_destroy is issued only by the drop of a living instance,  *)
(* and while no instance lives no tracker operation changes anything: the  *)
(* only call that changes the log is a new().                              *)
(***************************************************************************)
C28_FreshStruct ==
    [allocation_counter |-> 0, mapping_counter |-> 0,
     allocation_list |-> <<>>, mapping_list |-> <<>>]

C28_NewOf ==
    \A config \in ConfigInputs, ret \in AllNativeStatus :
        LET o == VirtualMachine_new(config, ret)
        IN  /\ o.result.ok <=> ret = HV_SUCCESS
            /\ o.result.ok => o.result.value = C28_FreshStruct
            /\ ~o.result.ok => o.result = convert_hv_return(ret)
            /\ o.native = <<hv_vm_create(NullPointer)>>

C28_IssuesDestroy(log) == \E i \in 1..Len(log) : log[i] = hv_vm_destroy

C28_States ==
    /\ vm_state \in {"Uninitialized", "Created", "Destroyed", "Panicked", "Aborted"}
    /\ vm_state = "Uninitialized" =>
          /\ VirtualMachine = C28_FreshStruct
          /\ ~C28_IssuesDestroy(native_log)
    /\ vm_state = "Destroyed" => allocation_list = <<>> /\ mapping_list = <<>>

C28_Step ==
    /\ vm_state' = "Uninitialized" => vm_state = "Uninitialized"
    /\ (vm_state # "Created" /\ vm_state' = "Created") =>
          /\ VirtualMachine' = C28_FreshStruct
          /\ native_log' = <<hv_vm_create(NullPointer)>>
          /\ returned_here' = {}
    /\ (vm_state = "Created" /\ vm_state' # "Created") =>
          /\ vm_state' \in {"Destroyed", "Panicked", "Aborted"}
          /\ native_log' # <<>>
          /\ native_log'[1].fn \in {"hv_vm_unmap", "hv_vm_destroy"}
    /\ vm_state' # vm_state => (vm_state = "Created" \/ vm_state' = "Created")
    /\ vm_state = "Aborted" => UNCHANGED vm_vars
    /\ (vm_state # "Created" /\ vm_state' = vm_state) =>
          /\ UNCHANGED <<allocation_counter, mapping_counter, allocation_list,
                         mapping_list, returned_here, returned_before>>
          /\ native_log' # native_log =>
                /\ native_log' = <<hv_vm_create(NullPointer)>>
                /\ ~C28_IssuesDestroy(native_log')
    /\ (native_log' # native_log /\ C28_IssuesDestroy(native_log')) =>
          vm_state = "Created"

C28_Lifecycle ==
    ([](C28_NewOf /\ C28_States)) /\ [][C28_Step]_vars

\* An instance was used and dropped, and the new() after it failed: no
\* instance exists, the only native call of the attempt is hv_vm_create.
C28_Witness ==
    /\ vm_state = "Destroyed"
    /\ allocation_counter = 2
    /\ returned_before = {1, 2}
    /\ native_log = <<hv_vm_create(NullPointer)>>

(***************************************************************************)
(* C27: get_allocation_slice_mut(h) succeeds for every handle h of the     *)
(* allocation list, mapped or not and whatever the vCPU does, with the     *)
(* slice over the whole buffer of that allocation; for every other handle  *)
(* it fails with InvalidHandle, and it fails in no other way.  The slice   *)
(* the caller holds stays the slice of a listed allocation while the vCPU  *)
(* is created and run: nothing in the library ends it or refuses run()     *)
(* because of it.                                                          *)
(***************************************************************************)
\* The slice over the buffer of the allocation with handle h.
C27_SliceOf(self, h) ==
    LET entry == CHOOSE e \in {self.allocation_list[i] : i \in 1..Len(self.allocation_list)} :
                     e.handle = h
    IN  [ptr |-> entry.base_address, len |-> entry.size, data |-> entry.data]

C27_MutableSliceUnarbitrated ==
    /\ \A h \in AllAllocationHandles, ub \in UndefinedBehaviourInputs :
          LET r == get_allocation_slice_mut(VirtualMachine, h, ub)
          IN  IF Known(VirtualMachine, h)
              THEN r.ok /\ r.value = C27_SliceOf(VirtualMachine, h)
              ELSE IsErr(r, "InvalidHandle")
    /\ view # NoView =>
          /\ Known(VirtualMachine, view.handle)
          /\ view.slice = C27_SliceOf(VirtualMachine, view.handle)

\* The caller holds the mutable slice of a mapped allocation while
\* hv_vcpu_run is in flight.
C27_Witness ==
    /\ view # NoView
    /\ is_allocation_mapped(VirtualMachine, view.handle)
    /\ vcpu_state = "Running"
    /\ vcpu_log = <<hv_vcpu_run(vcpu.handle)>>

(***************************************************************************)
(* C21, as the specification states it: when run() is in flight and an     *)
(* exit(), or an exit_vcpus() with the handle of the vCPU, is issued on    *)
(* another thread, run() eventually returns Ok(Cancelled): every such call *)
(* leaves an exit request pending for the vCPU, and a run() in flight with *)
(* a request pending eventually returns Ok(Cancelled).                     *)
(***************************************************************************)
\* The handle of the vCPU is in the list of the exit call.
C21_Named(call) ==
    \E i \in 1..Len(call.vcpus) : call.vcpus[i] = vcpu.handle

\* run() has returned Ok(Cancelled) and the VirtualCpu is live.
C21_Cancelled ==
    /\ vcpu_state = "Created"
    /\ vcpu_result.ok
    /\ vcpu_result.value = Cancelled

\* An exit call with the handle is issued while run() is in flight.
C21_IssuedStep ==
    (vcpu_state = "Running" /\ exit_result' # exit_result /\ C21_Named(exit_result'))
        => exit_pending'

C21_Listed(call) ==
    \E i \in 1..call.vcpu_count : i <= Len(call.vcpus) /\ call.vcpus[i] = vcpu.handle

C21_Step ==
    /\ (exit_result' # exit_result /\ exit_result'.result.ok /\ C21_Listed(exit_result'))
          => exit_pending'
    /\ (exit_pending' /\ ~exit_pending)
          => (exit_result'.result.ok /\ C21_Listed(exit_result'))
    /\ (exit_result' # exit_result /\ ~exit_result'.result.ok) =>
          /\ exit_pending' = exit_pending
          /\ \E ret \in AllNativeStatus \ {HV_SUCCESS} :
                exit_result'.result = convert_hv_return(ret)
    /\ exit_result'.vcpu_count = as_u32(Len(exit_result'.vcpus))
    /\ (vcpu_state = "Running" /\ exit_pending /\ vcpu_state' # "Running") =>
          /\ C21_Cancelled'
          /\ vcpu_exit'.reason = HV_EXIT_REASON_CANCELED
          /\ vcpu' = vcpu
          /\ ~exit_pending'

C22_Returns ==
    /\ vcpu_state' = "Created"
    /\ vcpu_log' = <<hv_vcpu_run(vcpu.handle)>>
    /\ \/ vcpu_state = "Running"
       \/ vcpu_state = "Created" /\ <<vcpu_result, vcpu_log>>' # <<vcpu_result, vcpu_log>>

\* The return ends a call in flight, by a cancellation or a guest trap.
C22_AfterExit ==
    /\ vcpu_state = "Running"
    /\ vcpu_result'.ok
    /\ IF exit_pending
       THEN /\ vcpu_exit'.reason = HV_EXIT_REASON_CANCELED
            /\ vcpu_result'.value = Cancelled
       ELSE /\ vcpu_exit'.reason # HV_EXIT_REASON_CANCELED
            /\ vcpu_result'.value # Cancelled

C22_ReturnsOnlyAfterExit == [][C22_Returns => C22_AfterExit]_vars

(***************************************************************************)
(* C22, amended: run() returns only after a guest exit event, after a      *)
(* cancellation request, or at once with the converted error when          *)
(* hv_vcpu_run fails, the exit record untouched.  A hv_vcpu_run in flight  *)
(* stays in flight in every step that is not a guest trap or the delivery  *)
(* of an exit request, and it is the only call that is ever in flight:     *)
(* every other operation returns in the step that calls it.                *)
(***************************************************************************)
C22_Step ==
    /\ C22_Returns =>
          \/ C22_AfterExit
          \/ /\ vcpu_state = "Created"
             /\ \E ret \in AllNativeStatus \ {HV_SUCCESS} :
                   vcpu_result' = convert_hv_return(ret)
             /\ vcpu_exit' = vcpu_exit
    /\ (vcpu_state = "Running" /\ ~C22_Returns) =>
          /\ vcpu_state' = "Running"
          /\ UNCHANGED <<vcpu, vcpu_exit, vcpu_result, vcpu_log>>
    /\ vcpu_state' = "Running" =>
          /\ vcpu_log' = <<hv_vcpu_run(vcpu.handle)>>
          /\ vcpu_state \in {"Created", "Running"}

C22_RunReturns == [][C22_Step]_vars

\* run() has returned the converted error of a hv_vcpu_run that failed,
\* after a run() that the guest ended with an exception.
C22_Witness ==
    /\ vcpu_state = "Created"
    /\ IsErr(vcpu_result, "BadArgument")
    /\ vcpu_exit.reason = HV_EXIT_REASON_EXCEPTION
    /\ vcpu_log = <<hv_vcpu_run(vcpu.handle)>>
    /\ ~exit_pending

(***************************************************************************)
(* C31: reprotect never reaches the panic "Mapping disapeared in between": *)
(* with the struct the same at the lookup and at the update (the method    *)
(* holds &mut self and the native call does not touch the lists), the      *)
(* index the lookup found is inside the mapping list and designates the    *)
(* record with the handle asked for, and it is that record whose           *)
(* permission is stored after a successful hv_vm_protect.                  *)
(***************************************************************************)
C31_IsPanic(result) == (~result.ok) /\ result.err.kind = "panic"

C31_MappingNeverDisappears ==
    \A m \in AllMappingHandles, perm \in AllPermissions, ret \in AllNativeStatus :
        LET found == find_mapping_by_handle(VirtualMachine, m)
            o == reprotect(VirtualMachine, m, perm, ret)
        IN  /\ ~C31_IsPanic(o.result)
            /\ found.ok =>
                  LET i == found.value.index + 1
                  IN  /\ i \in 1..Len(mapping_list)
                      /\ mapping_list[i] = found.value.entry
                      /\ mapping_list[i].mapping_handle = m
                      /\ Len(o.self.mapping_list) = Len(mapping_list)
                      /\ o.self.mapping_list[i].mapping_handle = m
                      /\ ret = HV_SUCCESS =>
                            /\ o.result.ok
                            /\ o.self.mapping_list[i].permission = perm

\* Two mappings are recorded and the last one has been reprotected to
\* EXECUTE: the lookup found the last index of the list.
C31_Witness ==
    /\ Len(mapping_list) = 2
    /\ mapping_list[1].permission = READ_WRITE
    /\ mapping_list[2].permission = EXECUTE
    /\ find_mapping_by_handle(VirtualMachine, mapping_list[2].mapping_handle).value.index = 1

(***************************************************************************)
(* C32: VirtualMachine::new applies no check of its own and keeps no       *)
(* record of a living instance: in every state, an instance living or not, *)
(* it issues hv_vm_create alone and returns Ok with a fresh struct exactly *)
(* when the native status is HV_SUCCESS, the converted status otherwise.   *)
(* A second instance comes to live beside the first in no other way than   *)
(* by such a call, which leaves the first instance as it is; a caller that *)
(* constructs only after the drop never has two.                           *)
(***************************************************************************)
C32_NewDecidedByStatus ==
    \A config \in ConfigInputs, ret \in AllNativeStatus :
        LET o == VirtualMachine_new(config, ret)
        IN  /\ o.native = <<hv_vm_create(NullPointer)>>
            /\ o.result.ok <=> ret = HV_SUCCESS
            /\ o.result.ok =>
                  o.result.value = [allocation_counter |-> 0, mapping_counter |-> 0,
                                    allocation_list |-> <<>>, mapping_list |-> <<>>]
            /\ ~o.result.ok => o.result = convert_hv_return(ret)

C32_Step ==
    /\ (second_vm # "Created" /\ second_vm' = "Created") =>
          /\ vm_state = "Created"
          /\ native_log' = <<hv_vm_create(NullPointer)>>
          /\ UNCHANGED <<allocation_counter, mapping_counter, allocation_list,
                         mapping_list, vm_state, returned_here, returned_before>>
    /\ second_vm' # second_vm => native_log'[Len(native_log')].fn \in {"hv_vm_create", "hv_vm_destroy"}

C32_NoGuard ==
    /\ [](C32_NewDecidedByStatus)
    /\ [][C32_Step]_vars

\* Two instances live in the process: the first one, with an allocation
\* and a mapping, and the one the last VirtualMachine::new returned.
C32_Witness ==
    /\ vm_state = "Created"
    /\ second_vm = "Created"
    /\ Len(allocation_list) = 1
    /\ Len(mapping_list) = 1
    /\ native_log = <<hv_vm_create(NullPointer)>>

(***************************************************************************)
(* C33, as the specification states it: after every tracker operation,     *)
(* whatever its native call returned, the mappings the native layer holds  *)
(* are those of the mapping list, one for each record and one record for   *)
(* each: same guest address, same size, and the flags of the permission    *)
(* the record stores, which is the one the last successful hv_vm_map or    *)
(* hv_vm_protect of that range applied.                                    *)
(***************************************************************************)
\* The native mapping a record stands for.
C33_NativeOf(record) ==
    [ipa |-> record.address, size |-> record.size,
     flags |-> hv_memory_flags_from(record.permission)]

C33_NativeMatchesRecords ==
    /\ native_mappings = {C33_NativeOf(mapping_list[i]) : i \in 1..Len(mapping_list)}
    /\ Cardinality(native_mappings) = Len(mapping_list)
    /\ \A i, j \in 1..Len(mapping_list) :
          i # j => ~Overlap(C33_NativeOf(mapping_list[i]), C33_NativeOf(mapping_list[j]))

(***************************************************************************)
(* C33, amended: the native mappings are those of the mapping list, one to *)
(* one, after construction, and every tracker operation, whatever its      *)
(* native call returned, keeps them so, except a map that the native layer *)
(* accepts over guest addresses that are mapped already, which map does    *)
(* not test: it records a second mapping of addresses that have one.  In   *)
(* every state each native mapping still has a record with its guest       *)
(* address and size.                                                       *)
(***************************************************************************)
\* This step records a mapping of guest addresses that were mapped.
C33_MapOverMapped ==
    /\ Len(mapping_list') = Len(mapping_list) + 1
    /\ \E n \in native_mappings :
          Overlap(n, C33_NativeOf(mapping_list'[Len(mapping_list')]))

C33_Step ==
    (C33_NativeMatchesRecords /\ ~C33_MapOverMapped) => C33_NativeMatchesRecords'

\* No native mapping without a record.
C33_NativeRecorded ==
    \A n \in native_mappings :
        \E i \in 1..Len(mapping_list) :
            /\ mapping_list[i].address = n.ipa
            /\ mapping_list[i].size = n.size

C33_MatchKept ==
    /\ [](C33_NativeRecorded)
    /\ [][C33_Step]_vars

\* Two mappings are held, the second one two pages above the first and
\* reprotected to EXECUTE, and the native mappings are those two.
C33_Witness ==
    /\ C33_NativeMatchesRecords
    /\ Len(mapping_list) = 2
    /\ mapping_list[1].address = 0
    /\ mapping_list[2].address = 2 * PAGE_SIZE
    /\ mapping_list[2].permission = EXECUTE
    /\ Cardinality(native_mappings) = 2
    /\ \E n \in native_mappings :
          n.ipa = 2 * PAGE_SIZE /\ n.flags = hv_memory_flags_from(EXECUTE)

(***************************************************************************)
(* C34: map accepts an allocation that is mapped already, so several       *)
(* records can reference one allocation; deallocate(h) returns Ok exactly  *)
(* when h is in the allocation list and no record references it, and       *)
(* AllocationStillMapped when h is listed and referenced.  This is so      *)
(* after the unmap of any one mapping too: as long as one record           *)
(* references h, deallocate(h) fails and changes nothing.                  *)
(***************************************************************************)
\* The number of records that reference allocation handle h.
C34_References(self, h) ==
    Cardinality({i \in 1..Len(self.mapping_list) :
                    self.mapping_list[i].allocation_handle = h})

\* deallocate(h) on self does what the references of h call for.
C34_DeallocateByReferences(self, h) ==
    LET d == deallocate(self, h)
    IN  /\ d.result.ok <=> (Known(self, h) /\ C34_References(self, h) = 0)
        /\ (Known(self, h) /\ C34_References(self, h) > 0) =>
              /\ IsErr(d.result, "AllocationStillMapped")
              /\ d.self = self
        /\ d.result.ok => ~Known(d.self, h)

C34_SharedAllocation ==
    \A h \in AllAllocationHandles :
        /\ C34_DeallocateByReferences(VirtualMachine, h)
        /\ Known(VirtualMachine, h) =>
              \A a \in AlignedAddresses :
                  LET o == map(VirtualMachine, h, a, READ_WRITE, HV_SUCCESS)
                  IN  /\ o.result.ok
                      /\ C34_References(o.self, h) = C34_References(VirtualMachine, h) + 1
                      /\ C34_DeallocateByReferences(o.self, h)
        /\ \A m \in AllMappingHandles :
              LET u == unmap(VirtualMachine, m, HV_SUCCESS)
              IN  /\ C34_DeallocateByReferences(u.self, h)
                  /\ (u.result.ok /\ C34_References(VirtualMachine, h) > 1) =>
                        IsErr(deallocate(u.self, h).result, "AllocationStillMapped")

\* The only allocation was mapped twice and one of the two mappings has
\* been unmapped: deallocate still fails, and succeeds after the unmap of
\* the other one.
C34_Witness ==
    /\ allocation_counter = 1
    /\ mapping_counter = 2
    /\ Len(mapping_list) = 1
    /\ Len(allocation_list) = 1
    /\ IsErr(deallocate(VirtualMachine, 1).result, "AllocationStillMapped")
    /\ deallocate(unmap(VirtualMachine, mapping_list[1].mapping_handle, HV_SUCCESS).self,
                  1).result.ok

(***************************************************************************)
(* C35: no buffer is released while the native layer holds a mapping of    *)
(* it: every buffer released, by a successful deallocate or when the       *)
(* fields of the VirtualMachine are dropped, was natively unmapped at that *)
(* moment.                                                                 *)
(***************************************************************************)
C35_ReleasedUnmapped == \A r \in released : ~r.mapped

(***************************************************************************)
(* C36: the VirtualMachine has no field for the vCPUs it created and its   *)
(* drop issues hv_vm_unmap and hv_vm_destroy calls only, leaving a live    *)
(* VirtualCpu as it is; so the VirtualMachine can be Destroyed while the   *)
(* VirtualCpu is live.  The drop of that VirtualCpu then issues            *)
(* hv_vcpus_exit and, if it succeeded, hv_vcpu_destroy, as it does beside  *)
(* a living VirtualMachine, and panics on any status but HV_SUCCESS.       *)
(***************************************************************************)
\* Drop for VirtualCpu issues the exit request, then the destroy call, and
\* returns only if both succeeded.
C36_VcpuDropCalls ==
    \A exit_ret \in AllNativeStatus, destroy_ret \in AllNativeStatus :
        LET o == VirtualCpu_drop(vcpu, exit_ret, destroy_ret)
        IN  /\ o.native = IF exit_ret = HV_SUCCESS
                          THEN <<hv_vcpus_exit(<<vcpu.handle>>, 1),
                                 hv_vcpu_destroy(vcpu.handle)>>
                          ELSE <<hv_vcpus_exit(<<vcpu.handle>>, 1)>>
            /\ o.result.ok <=> (exit_ret = HV_SUCCESS /\ destroy_ret = HV_SUCCESS)
            /\ ~o.result.ok => o.result.err.kind = "panic"

C36_State ==
    /\ DOMAIN VirtualMachine =
          {"allocation_counter", "mapping_counter", "allocation_list", "mapping_list"}
    /\ vm_state = "Created" =>
          \A rets \in DropStatusInputs(Len(mapping_list)), ret \in NativeStatusInputs :
              LET o == VirtualMachine_drop(VirtualMachine, rets, ret)
              IN  \A i \in 1..Len(o.native) :
                      o.native[i].fn \in {"hv_vm_unmap", "hv_vm_destroy"}
    /\ vcpu_state = "Created" => C36_VcpuDropCalls

C36_Step ==
    /\ vm_state' # vm_state => UNCHANGED vcpu_vars
    /\ (vm_state = "Destroyed" /\ vcpu_state' # vcpu_state) =>
          /\ vcpu_state = "Created"
          /\ vcpu_state' \in {"Destroyed", "Panicked"}
          /\ vcpu_log' \in {<<hv_vcpus_exit(<<vcpu.handle>>, 1)>>,
                            <<hv_vcpus_exit(<<vcpu.handle>>, 1),
                              hv_vcpu_destroy(vcpu.handle)>>}
          /\ vcpu_state' = "Destroyed" => Len(vcpu_log') = 2
          /\ vm_state' = "Destroyed"

C36_VcpusNotOwned ==
    /\ [](C36_State)
    /\ [][C36_Step]_vars

\* The VirtualMachine, which had a mapping, is destroyed, hv_vm_destroy the
\* last call of its drop, and the VirtualCpu created from it is live.
C36_Witness ==
    /\ vm_state = "Destroyed"
    /\ Len(native_log) = 2
    /\ native_log[2] = hv_vm_destroy
    /\ vcpu_state = "Created"
    /\ vcpu_log = <<hv_vcpu_create(NullPointer)>>

====
